---------------------------- MODULE Spec2Model ----------------------------
(***************************************************************************)
(* Bobbin: the dialogue runtime (Runtime facade over the stepping VM), the *)
(* resolver that feeds the compiler, and the bytecode the VM executes.     *)
(*                                                                         *)
(* Indices are 0-based as in the Rust source: instruction i of a chunk is  *)
(* chunk.code[i + 1], stack slot s is stack[s + 1].                        *)
(*                                                                         *)
(* Where a loop of the source threads a value through its iterations, the  *)
(* value of one iteration is bound by a singleton set,                     *)
(*     CHOOSE out \in {Rest(v) : v \in {OneIteration}} : TRUE,             *)
(* so that it is computed once, before the rest of the loop runs.          *)
(***************************************************************************)
EXTENDS Integers, Sequences, FiniteSets, TLC

(***************************************************************************)
(* Bounds of the model.                                                    *)
(***************************************************************************)
\* Longest top-level statement list of a script.
MaxStmts == 2
\* Choice indices the host may pass are 0 .. MaxIndex.
MaxIndex == 2

(***************************************************************************)
(* Values (chunk::Value) and Option.                                       *)
(***************************************************************************)
Num(n) == [tag |-> "Number", n |-> n, s |-> ""]
Str(s) == [tag |-> "String", n |-> 0, s |-> s]

DigitStr == <<"0", "1", "2", "3", "4", "5", "6", "7", "8", "9">>

RECURSIVE NatStr(_)
NatStr(n) == IF n < 10 THEN DigitStr[n + 1]
             ELSE NatStr(n \div 10) \o DigitStr[(n % 10) + 1]

\* Value::to_string_value: the display text of a value.
ToStringValue(v) == IF v.tag = "String" THEN v.s ELSE NatStr(v.n)

None == [some |-> FALSE, v |-> <<>>]
Some(x) == [some |-> TRUE, v |-> x]

(***************************************************************************)
(* AST (Script, Stmt, Choice, TextPart).  A node's id is its NodeId; its   *)
(* span is carried next to it.                                             *)
(***************************************************************************)
Literal(t) == [kind |-> "Literal", text |-> t, name |-> "", id |-> <<>>]
VarRef(n) == [kind |-> "VarRef", text |-> "", name |-> n, id |-> <<>>]

Stmt(k, n, v, p, c) ==
    [kind |-> k, name |-> n, value |-> v, parts |-> p, choices |-> c, id |-> <<>>]
TempDecl(n, v) == Stmt("TempDecl", n, v, <<>>, <<>>)
SaveDecl(n, v) == Stmt("SaveDecl", n, v, <<>>, <<>>)
ExternDecl(n) == Stmt("ExternDecl", n, Num(0), <<>>, <<>>)
Assignment(n, v) == Stmt("Assignment", n, v, <<>>, <<>>)
StmtLine(p) == Stmt("Line", "", Num(0), p, <<>>)
StmtChoiceSet(c) == Stmt("ChoiceSet", "", Num(0), <<>>, c)
Choice(p, nested) == [parts |-> p, nested |-> nested]

\* The parser gives every node a fresh NodeId; choice blocks continue the
\* same numbering.  A NodeId is modelled by the node's path in the tree.
PartsWithIds(parts, prefix) ==
    [i \in 1..Len(parts) |-> [parts[i] EXCEPT !.id = prefix \o <<0, i>>]]

RECURSIVE StmtsWithIds(_, _)
StmtsWithIds(stmts, prefix) ==
    [i \in 1..Len(stmts) |->
        LET s == stmts[i]
            p == prefix \o <<i>>
        IN [s EXCEPT !.id = p,
                     !.parts = PartsWithIds(s.parts, p),
                     !.choices = [c \in 1..Len(s.choices) |->
                         [parts |-> PartsWithIds(s.choices[c].parts, p \o <<c>>),
                          nested |-> StmtsWithIds(s.choices[c].nested, p \o <<c>>)]]]]

\* Parser::parse: a source text either has parse errors or yields a Script.
Parse(src) ==
    IF src.parse_errors > 0
    THEN [ok |-> FALSE, statements |-> <<>>]
    ELSE [ok |-> TRUE, statements |-> StmtsWithIds(src.statements, <<>>)]

(***************************************************************************)
(* Resolver (resolver.rs).  HashMaps are functions; insert is k :> v @@ m. *)
(***************************************************************************)
EmptyMap == <<>>

Insert(m, k, v) == (k :> v) @@ m

Scope(start) == [variables |-> EmptyMap, start_slot |-> start]

ResolverNew ==
    [scopes |-> <<Scope(0)>>,
     save_vars |-> EmptyMap,
     extern_vars |-> EmptyMap,
     next_slot |-> 0,
     bindings |-> EmptyMap,
     save_bindings |-> EmptyMap,
     extern_bindings |-> EmptyMap,
     errors |-> <<>>]

Shadowing(name, span, original) ==
    [kind |-> "Shadowing", name |-> name, span |-> span, original |-> original]
UndefinedVariable(name, span) ==
    [kind |-> "UndefinedVariable", name |-> name, span |-> span, original |-> <<>>]
AssignmentToExtern(name, span) ==
    [kind |-> "AssignmentToExtern", name |-> name, span |-> span, original |-> <<>>]

\* Error collection that stops after the first error.
PushError_FirstOnly(r, e) == IF r.errors = <<>> THEN [r EXCEPT !.errors = <<e>>] ELSE r

PushError(r, e) == [r EXCEPT !.errors = Append(@, e)]

\* push_scope that does not snapshot next_slot.
push_scope_FromZero(r) == [r EXCEPT !.scopes = Append(@, Scope(0))]

push_scope(r) == [r EXCEPT !.scopes = Append(@, Scope(r.next_slot))]

\* pop_scope that keeps next_slot where the closed scope left it.
pop_scope_NoReclaim(r) ==
    IF Len(r.scopes) = 0 THEN r
    ELSE [r EXCEPT !.scopes = SubSeq(@, 1, Len(@) - 1)]

\* pop_scope that hands the closed scope's temps to the enclosing scope.
pop_scope_KeepVariables(r) ==
    IF Len(r.scopes) <= 1 THEN r
    ELSE LET n == Len(r.scopes)
             top == r.scopes[n]
             parent == r.scopes[n - 1]
         IN [r EXCEPT !.next_slot = top.start_slot,
                      !.scopes = SubSeq(r.scopes, 1, n - 2)
                          \o <<[parent EXCEPT !.variables = top.variables @@ parent.variables]>>]

pop_scope(r) ==
    IF Len(r.scopes) = 0 THEN r
    ELSE [r EXCEPT !.next_slot = r.scopes[Len(r.scopes)].start_slot,
                   !.scopes = SubSeq(@, 1, Len(@) - 1)]

\* find_global_conflict that looks at the save variables only.
find_global_conflict_SaveOnly(r, name) ==
    IF name \in DOMAIN r.save_vars THEN Some(r.save_vars[name].span) ELSE None

\* Span of the save or extern declaration of name, if any.
find_global_conflict(r, name) ==
    IF name \in DOMAIN r.save_vars THEN Some(r.save_vars[name].span)
    ELSE IF name \in DOMAIN r.extern_vars THEN Some(r.extern_vars[name].span)
    ELSE None

\* Span of the first temp called name in scopes, visited in the order given
\* by the index sequence order.
RECURSIVE find_temp_conflict(_, _, _)
find_temp_conflict(r, name, order) ==
    IF order = <<>> THEN None
    ELSE IF name \in DOMAIN r.scopes[Head(order)].variables
         THEN Some(r.scopes[Head(order)].variables[name].span)
         ELSE find_temp_conflict(r, name, Tail(order))

\* scopes.iter().rev(): innermost first.
RevOrder(n) == [i \in 1..n |-> n + 1 - i]
\* scopes.iter(): outermost first.
FwdOrder(n) == [i \in 1..n |-> i]

declare_temp(r, id, name, span) ==
    LET n == Len(r.scopes)
        global == find_global_conflict(r, name)
        outer == find_temp_conflict(r, name, Tail(RevOrder(n)))
        current == r.scopes[n].variables
    IN IF global.some THEN PushError(r, Shadowing(name, span, global.v))
       ELSE IF outer.some THEN PushError(r, Shadowing(name, span, outer.v))
       ELSE IF name \in DOMAIN current
            THEN PushError(r, Shadowing(name, span, current[name].span))
       ELSE [r EXCEPT !.next_slot = @ + 1,
                      !.scopes[n].variables =
                          Insert(@, name, [slot |-> r.next_slot, span |-> span]),
                      !.bindings = Insert(@, id, r.next_slot)]

\* declare_save that does not look at the temp scopes.
declare_save_NoTempCheck(r, id, name, span) ==
    LET global == find_global_conflict(r, name)
    IN IF global.some THEN PushError(r, Shadowing(name, span, global.v))
       ELSE [r EXCEPT !.save_vars = Insert(@, name, [span |-> span]),
                      !.save_bindings = Insert(@, id, name)]

declare_save(r, id, name, span) ==
    LET global == find_global_conflict(r, name)
        temp == find_temp_conflict(r, name, FwdOrder(Len(r.scopes)))
    IN IF global.some THEN PushError(r, Shadowing(name, span, global.v))
       ELSE IF temp.some THEN PushError(r, Shadowing(name, span, temp.v))
       ELSE [r EXCEPT !.save_vars = Insert(@, name, [span |-> span]),
                      !.save_bindings = Insert(@, id, name)]

\* declare_extern that also records a binding for the declaration node.
declare_extern_RecordsBinding(r, id, name, span) ==
    LET global == find_global_conflict(r, name)
        temp == find_temp_conflict(r, name, FwdOrder(Len(r.scopes)))
    IN IF global.some THEN PushError(r, Shadowing(name, span, global.v))
       ELSE IF temp.some THEN PushError(r, Shadowing(name, span, temp.v))
       ELSE [r EXCEPT !.extern_vars = Insert(@, name, [span |-> span]),
                      !.extern_bindings = Insert(@, id, name)]

declare_extern(r, id, name, span) ==
    LET global == find_global_conflict(r, name)
        temp == find_temp_conflict(r, name, FwdOrder(Len(r.scopes)))
    IN IF global.some THEN PushError(r, Shadowing(name, span, global.v))
       ELSE IF temp.some THEN PushError(r, Shadowing(name, span, temp.v))
       ELSE [r EXCEPT !.extern_vars = Insert(@, name, [span |-> span])]

\* Innermost scope (as an index into scopes) declaring name, 0 if none.
RECURSIVE FindScope(_, _, _)
FindScope(r, name, i) ==
    IF i = 0 THEN 0
    ELSE IF name \in DOMAIN r.scopes[i].variables THEN i
    ELSE FindScope(r, name, i - 1)

\* resolve_reference that binds an extern name for writes as it does for reads.
resolve_reference_IgnoreWrite(r, id, name, span, for_write) ==
    LET i == FindScope(r, name, Len(r.scopes))
    IN IF i > 0
       THEN [r EXCEPT !.bindings = Insert(@, id, r.scopes[i].variables[name].slot)]
       ELSE IF name \in DOMAIN r.save_vars
       THEN [r EXCEPT !.save_bindings = Insert(@, id, name)]
       ELSE IF name \in DOMAIN r.extern_vars
       THEN [r EXCEPT !.extern_bindings = Insert(@, id, name)]
       ELSE PushError(r, UndefinedVariable(name, span))

resolve_reference(r, id, name, span, for_write) ==
    LET i == FindScope(r, name, Len(r.scopes))
    IN IF i > 0
       THEN [r EXCEPT !.bindings = Insert(@, id, r.scopes[i].variables[name].slot)]
       ELSE IF name \in DOMAIN r.save_vars
       THEN [r EXCEPT !.save_bindings = Insert(@, id, name)]
       ELSE IF name \in DOMAIN r.extern_vars
       THEN IF for_write
            THEN PushError(r, AssignmentToExtern(name, span))
            ELSE [r EXCEPT !.extern_bindings = Insert(@, id, name)]
       ELSE PushError(r, UndefinedVariable(name, span))

RECURSIVE resolve_text_parts(_, _)
resolve_text_parts(r, parts) ==
    IF parts = <<>> THEN r
    ELSE LET p == Head(parts)
         IN CHOOSE out \in
                {resolve_text_parts(r1, Tail(parts)) :
                    r1 \in {IF p.kind = "VarRef"
                            THEN resolve_reference(r, p.id, p.name, p.id, FALSE)
                            ELSE r}} : TRUE

\* for choice in choices { resolve_text_parts(&choice.parts) }
RECURSIVE ResolveChoiceTexts(_, _)
ResolveChoiceTexts(r, choices) ==
    IF choices = <<>> THEN r
    ELSE CHOOSE out \in
            {ResolveChoiceTexts(r1, Tail(choices)) :
                r1 \in {resolve_text_parts(r, Head(choices).parts)}} : TRUE

RECURSIVE resolve_stmt(_, _)
RECURSIVE ResolveStmts(_, _)
RECURSIVE ResolveChoiceBranches(_, _)

resolve_choice_branch(r, choice) ==
    CHOOSE out \in
        {pop_scope(r1) : r1 \in {ResolveStmts(push_scope(r), choice.nested)}} : TRUE

\* for choice in choices { resolve_choice_branch(choice) }
ResolveChoiceBranches(r, choices) ==
    IF choices = <<>> THEN r
    ELSE CHOOSE out \in
            {ResolveChoiceBranches(r1, Tail(choices)) :
                r1 \in {resolve_choice_branch(r, Head(choices))}} : TRUE

resolve_stmt(r, stmt) ==
    CASE stmt.kind = "TempDecl" -> declare_temp(r, stmt.id, stmt.name, stmt.id)
      [] stmt.kind = "SaveDecl" -> declare_save(r, stmt.id, stmt.name, stmt.id)
      [] stmt.kind = "ExternDecl" -> declare_extern(r, stmt.id, stmt.name, stmt.id)
      [] stmt.kind = "Assignment" ->
            resolve_reference(r, stmt.id, stmt.name, stmt.id, TRUE)
      [] stmt.kind = "Line" -> resolve_text_parts(r, stmt.parts)
      [] stmt.kind = "ChoiceSet" ->
            CHOOSE out \in
                {ResolveChoiceBranches(r1, stmt.choices) :
                    r1 \in {ResolveChoiceTexts(r, stmt.choices)}} : TRUE

\* for stmt in statements { resolve_stmt(stmt) }
ResolveStmts(r, stmts) ==
    IF stmts = <<>> THEN r
    ELSE CHOOSE out \in
            {ResolveStmts(r1, Tail(stmts)) : r1 \in {resolve_stmt(r, Head(stmts))}} : TRUE

\* The orders in which a HashMap may yield its keys.
KeyOrders(m) ==
    {o \in [1..Cardinality(DOMAIN m) -> DOMAIN m] :
        \A i, j \in DOMAIN o : i # j => o[i] # o[j]}

RECURSIVE ScopeKeyOrders(_, _)
ScopeKeyOrders(scopes, i) ==
    IF i > Len(scopes) THEN {<<>>}
    ELSE {a \o b : a \in KeyOrders(scopes[i].variables), b \in ScopeKeyOrders(scopes, i + 1)}

\* known_variables without the extern names.
known_variables_NoExterns(r) ==
    {t \o sv : t \in ScopeKeyOrders(r.scopes, 1), sv \in KeyOrders(r.save_vars)}

\* Resolver::known_variables: the temporaries of every open scope, then the
\* save names, then the extern names; each map in its iteration order.
known_variables(r) ==
    {t \o sv \o ex : t \in ScopeKeyOrders(r.scopes, 1),
                     sv \in KeyOrders(r.save_vars),
                     ex \in KeyOrders(r.extern_vars)}

\* Resolver::analyze: Ok(SymbolTable) when no error was collected.
analyze(ast) ==
    CHOOSE out \in
        {[ok |-> r.errors = <<>>,
          errors |-> r.errors,
          bindings |-> r.bindings,
          save_bindings |-> r.save_bindings,
          extern_bindings |-> r.extern_bindings] :
            r \in {ResolveStmts(ResolverNew, ast.statements)}} : TRUE

(***************************************************************************)
(* Chunk and Instruction (chunk.rs), and the compiler that lowers a        *)
(* resolved Script to a Chunk.                                             *)
(***************************************************************************)
Ins(op, arg, name, targets) ==
    [op |-> op, arg |-> arg, name |-> name, targets |-> targets]
Constant(index) == Ins("Constant", index, "", <<>>)
GetLocal(slot) == Ins("GetLocal", slot, "", <<>>)
SetLocal(slot) == Ins("SetLocal", slot, "", <<>>)
Concat(count) == Ins("Concat", count, "", <<>>)
InstrLine == Ins("Line", 0, "", <<>>)
InstrChoiceSet(count, targets) == Ins("ChoiceSet", count, "", targets)
Jump(target) == Ins("Jump", target, "", <<>>)
InitStorage(name) == Ins("InitStorage", 0, name, <<>>)
GetStorage(name) == Ins("GetStorage", 0, name, <<>>)
SetStorage(name) == Ins("SetStorage", 0, name, <<>>)
GetHost(name) == Ins("GetHost", 0, name, <<>>)
Return == Ins("Return", 0, "", <<>>)

EmptyChunk == [constants |-> <<>>, code |-> <<>>]

\* The compiler's output for a piece of the script: the instructions it
\* appends and the constants it adds to the pool.  base is the index its
\* first instruction gets, cbase the index its first constant gets.
Frag(code, constants) == [code |-> code, constants |-> constants]

Then(f, g) ==
    CHOOSE out \in
        {Frag(a.code \o b.code, a.constants \o b.constants) : a \in {f}, b \in {g}} : TRUE

\* Adds v to the constant pool and emits the push of it.
EmitConstant(v, cbase) == Frag(<<Constant(cbase)>>, <<v>>)

\* A reference loads from where the symbol table bound its node.
CompileVarRef(sym, p) ==
    IF p.id \in DOMAIN sym.bindings THEN GetLocal(sym.bindings[p.id])
    ELSE IF p.id \in DOMAIN sym.save_bindings
         THEN GetStorage(sym.save_bindings[p.id])
         ELSE GetHost(sym.extern_bindings[p.id])

RECURSIVE CompileParts(_, _, _)
CompileParts(sym, parts, cbase) ==
    IF parts = <<>> THEN Frag(<<>>, <<>>)
    ELSE LET p == Head(parts)
         IN CHOOSE out \in
                {Then(first, CompileParts(sym, Tail(parts), cbase + Len(first.constants))) :
                    first \in {IF p.kind = "Literal"
                               THEN EmitConstant(Str(p.text), cbase)
                               ELSE Frag(<<CompileVarRef(sym, p)>>, <<>>)}} : TRUE

\* Interpolated text: push each part in order, then one Concat of that count.
CompileText(sym, parts, cbase) ==
    CHOOSE out \in
        {Then(pushes, Frag(<<Concat(Len(parts))>>, <<>>)) :
            pushes \in {CompileParts(sym, parts, cbase)}} : TRUE

RECURSIVE CompileChoiceTexts(_, _, _)
CompileChoiceTexts(sym, choices, cbase) ==
    IF choices = <<>> THEN Frag(<<>>, <<>>)
    ELSE CHOOSE out \in
            {Then(first,
                  CompileChoiceTexts(sym, Tail(choices), cbase + Len(first.constants))) :
                first \in {CompileText(sym, Head(choices).parts, cbase)}} : TRUE

RECURSIVE CompileStmts(_, _, _, _)
RECURSIVE CompileBranches(_, _, _, _, _)

\* A branch starting at base, followed by the branches after it.
BranchThen(base, first, rest) ==
    CHOOSE out \in
        {[code |-> f.code \o r.code,
          constants |-> f.constants \o r.constants,
          targets |-> <<base>> \o r.targets] : f \in {first}, r \in {rest}} : TRUE

\* Each branch: its target is where its block starts; the block ends with a
\* Jump to end, the instruction after the whole choice set.
CompileBranches(sym, choices, base, cbase, end) ==
    IF choices = <<>> THEN [code |-> <<>>, constants |-> <<>>, targets |-> <<>>]
    ELSE CHOOSE out \in
            {BranchThen(base, first,
                        CompileBranches(sym, Tail(choices), base + Len(first.code),
                                        cbase + Len(first.constants), end)) :
                first \in {Then(CompileStmts(sym, Head(choices).nested, base, cbase),
                                Frag(<<Jump(end)>>, <<>>))}} : TRUE

\* The choice texts, the dispatch with one target per choice, the branches.
\* The branches are laid out once to learn where the choice set ends, then
\* emitted with their closing Jumps resolved to that index.
ChoiceSetAt(sym, choices, texts, at, cat, end) ==
    CHOOSE out \in
        {Frag(texts.code \o <<InstrChoiceSet(Len(choices), branches.targets)>>
                  \o branches.code,
              texts.constants \o branches.constants) :
            branches \in {CompileBranches(sym, choices, at + 1, cat, end)}} : TRUE

ChoiceSetAfterTexts(sym, choices, texts, at, cat) ==
    CHOOSE out \in
        {ChoiceSetAt(sym, choices, texts, at, cat, at + 1 + len) :
            len \in {Len(CompileBranches(sym, choices, at + 1, cat, 0).code)}} : TRUE

CompileChoiceSet(sym, choices, base, cbase) ==
    CHOOSE out \in
        {ChoiceSetAfterTexts(sym, choices, texts, base + Len(texts.code),
                             cbase + Len(texts.constants)) :
            texts \in {CompileChoiceTexts(sym, choices, cbase)}} : TRUE

CompileStmt(sym, stmt, base, cbase) ==
    CASE stmt.kind = "TempDecl" -> EmitConstant(stmt.value, cbase)
      [] stmt.kind = "SaveDecl" ->
            Then(EmitConstant(stmt.value, cbase), Frag(<<InitStorage(stmt.name)>>, <<>>))
      [] stmt.kind = "ExternDecl" -> Frag(<<>>, <<>>)
      [] stmt.kind = "Assignment" ->
            IF stmt.id \in DOMAIN sym.bindings
            THEN Then(EmitConstant(stmt.value, cbase),
                      Frag(<<SetLocal(sym.bindings[stmt.id])>>, <<>>))
            ELSE Then(EmitConstant(stmt.value, cbase),
                      Frag(<<SetStorage(stmt.name)>>, <<>>))
      [] stmt.kind = "Line" ->
            Then(CompileText(sym, stmt.parts, cbase), Frag(<<InstrLine>>, <<>>))
      [] stmt.kind = "ChoiceSet" -> CompileChoiceSet(sym, stmt.choices, base, cbase)

CompileStmts(sym, stmts, base, cbase) ==
    IF stmts = <<>> THEN Frag(<<>>, <<>>)
    ELSE CHOOSE out \in
            {Then(first, CompileStmts(sym, Tail(stmts), base + Len(first.code),
                                      cbase + Len(first.constants))) :
                first \in {CompileStmt(sym, Head(stmts), base, cbase)}} : TRUE

\* Compiler::compile: the statements, then Return.  CompileError has no
\* variant, so compilation of a resolved script always succeeds.
compile(ast, sym) ==
    CHOOSE out \in
        {[constants |-> body.constants, code |-> Append(body.code, Return)] :
            body \in {CompileStmts(sym, ast.statements, 0, 0)}} : TRUE

(***************************************************************************)
(* Results: StepResult, RuntimeError, BobbinError, and a panic (an         *)
(* out-of-bounds index or a failed expect aborts the call).                *)
(***************************************************************************)
Res(kind, text, choices, name, index, count) ==
    [kind |-> kind, text |-> text, choices |-> choices, name |-> name,
     index |-> index, count |-> count]
Continue == Res("Continue", "", <<>>, "", 0, 0)
ResLine(text) == Res("Line", text, <<>>, "", 0, 0)
ResChoice(choices) == Res("Choice", "", choices, "", 0, 0)
Done == Res("Done", "", <<>>, "", 0, 0)
NotAtChoice == Res("NotAtChoice", "", <<>>, "", 0, 0)
InvalidChoiceIndex(index, count) == Res("InvalidChoiceIndex", "", <<>>, "", index, count)
MissingSaveVariable(name) == Res("MissingSaveVariable", "", <<>>, name, 0, 0)
MissingExternVariable(name) == Res("MissingExternVariable", "", <<>>, name, 0, 0)
Panic == Res("Panic", "", <<>>, "", 0, 0)
Ok == Res("Ok", "", <<>>, "", 0, 0)
ParseErr == Res("Parse", "", <<>>, "", 0, 0)
SemanticErr == Res("Semantic", "", <<>>, "", 0, 0)
NoCall == Res("NoCall", "", <<>>, "", 0, 0)

StepKinds == {"Line", "Choice", "Done"}
RuntimeErrorKinds ==
    {"NotAtChoice", "InvalidChoiceIndex", "MissingSaveVariable", "MissingExternVariable"}

(***************************************************************************)
(* VariableStorage (MemoryStorage) and HostState.                          *)
(***************************************************************************)
storage_get(st, name) == st[name]
storage_set(st, name, value) == [st EXCEPT ![name] = Some(value)]
\* initialize_if_absent that inserts whether or not the name is present.
initialize_if_absent_Overwrite(st, name, default) ==
    [st EXCEPT ![name] = Some(default)]

initialize_if_absent(st, name, default) ==
    IF st[name].some THEN st ELSE [st EXCEPT ![name] = Some(default)]
lookup(h, name) == h[name]

(***************************************************************************)
(* VM (vm.rs).  A machine m is [ip, stack, storage] plus, for the call in  *)
(* progress, trace (the instruction indices executed), calls (the storage  *)
(* and host methods called) and res.                                       *)
(***************************************************************************)
VMNew == [ip |-> 0, stack |-> <<>>]

\* A machine that runs on a storage of its own, empty at the start of each
\* call, instead of the storage it is handed.
Machine_OwnStorage(vm, st) ==
    [ip |-> vm.ip, stack |-> vm.stack, storage |-> [n \in DOMAIN st |-> None],
     trace |-> <<>>, calls |-> <<>>, res |-> Continue]

Machine(vm, st) ==
    [ip |-> vm.ip, stack |-> vm.stack, storage |-> st,
     trace |-> <<>>, calls |-> <<>>, res |-> Continue]

Push(m, v) == [m EXCEPT !.stack = Append(@, v)]
Top(m) == m.stack[Len(m.stack)]
Popped(m) == [m EXCEPT !.stack = SubSeq(@, 1, Len(@) - 1)]
Fail(m, r) == [m EXCEPT !.res = r]

RECURSIVE JoinText(_)
JoinText(vals) ==
    IF vals = <<>> THEN ""
    ELSE ToStringValue(Head(vals)) \o JoinText(Tail(vals))

ExecConstant(chunk, m, index) ==
    IF index >= Len(chunk.constants) THEN Fail(m, Panic)
    ELSE Push(m, chunk.constants[index + 1])

ExecGetLocal(m, slot) ==
    IF slot >= Len(m.stack) THEN Fail(m, Panic) ELSE Push(m, m.stack[slot + 1])

ExecSetLocal(m, slot) ==
    IF m.stack = <<>> THEN Fail(m, Panic)
    ELSE IF slot >= Len(m.stack) - 1 THEN Fail(Popped(m), Panic)
    ELSE [Popped(m) EXCEPT !.stack[slot + 1] = Top(m)]

\* stack.len() - count on usize: with overflow checks a shortfall panics;
\* without them it wraps, the range start..len is empty, truncate(start)
\* is a no-op and the empty string is pushed.
ExecConcat(m, count, overflow_checks) ==
    LET n == Len(m.stack)
    IN IF count > n
       THEN IF overflow_checks THEN Fail(m, Panic) ELSE Push(m, Str(""))
       ELSE [m EXCEPT !.stack =
                Append(SubSeq(@, 1, n - count),
                       Str(JoinText(SubSeq(m.stack, n - count + 1, n))))]

\* ExecLine without its return: the line is popped and the loop goes on.
ExecLine_NoPause(m) ==
    IF m.stack = <<>> THEN Fail(m, Panic) ELSE Popped(m)

ExecLine(m) ==
    IF m.stack = <<>> THEN Fail(m, Panic)
    ELSE Fail(Popped(m), ResLine(ToStringValue(Top(m))))

\* ExecChoiceSet without the reverse: the texts stay in pop order.
ExecChoiceSet_PopOrder(m, count) ==
    LET n == Len(m.stack)
    IN IF count > n THEN Fail([m EXCEPT !.stack = <<>>], Panic)
       ELSE [m EXCEPT
               !.stack = SubSeq(@, 1, n - count),
               !.ip = @ - 1,
               !.res = ResChoice([i \in 1..count |->
                           ToStringValue(m.stack[n + 1 - i])])]

\* Pops count texts (last pushed first) and reverses them; ip is backed up
\* onto the ChoiceSet.
ExecChoiceSet(m, count) ==
    LET n == Len(m.stack)
    IN IF count > n THEN Fail([m EXCEPT !.stack = <<>>], Panic)
       ELSE [m EXCEPT
               !.stack = SubSeq(@, 1, n - count),
               !.ip = @ - 1,
               !.res = ResChoice([i \in 1..count |->
                           ToStringValue(m.stack[n - count + i])])]

ExecJump(m, target) == [m EXCEPT !.ip = target]

ExecInitStorage(m, name) ==
    IF m.stack = <<>> THEN Fail(m, Panic)
    ELSE [Popped(m) EXCEPT
            !.storage = initialize_if_absent(@, name, Top(m)),
            !.calls = Append(@, "initialize_if_absent")]

\* GetStorage that answers a missing variable with a default.
ExecGetStorage_Default(m, name) ==
    LET got == storage_get(m.storage, name)
        m1 == [m EXCEPT !.calls = Append(@, "get")]
    IN IF got.some THEN Push(m1, got.v) ELSE Push(m1, Num(0))

ExecGetStorage(m, name) ==
    LET got == storage_get(m.storage, name)
        m1 == [m EXCEPT !.calls = Append(@, "get")]
    IN IF got.some THEN Push(m1, got.v) ELSE Fail(m1, MissingSaveVariable(name))

ExecSetStorage(m, name) ==
    IF m.stack = <<>> THEN Fail(m, Panic)
    ELSE [Popped(m) EXCEPT
            !.storage = storage_set(@, name, Top(m)),
            !.calls = Append(@, "set")]

ExecGetHost(host, m, name) ==
    LET got == lookup(host, name)
        m1 == [m EXCEPT !.calls = Append(@, "lookup")]
    IN IF got.some THEN Push(m1, got.v) ELSE Fail(m1, MissingExternVariable(name))

ExecReturn(m) == Fail(m, Done)

\* The match of VM::run on one fetched instruction.
Exec(chunk, host, overflow_checks, m, ins) ==
    CASE ins.op = "Constant" -> ExecConstant(chunk, m, ins.arg)
      [] ins.op = "GetLocal" -> ExecGetLocal(m, ins.arg)
      [] ins.op = "SetLocal" -> ExecSetLocal(m, ins.arg)
      [] ins.op = "Concat" -> ExecConcat(m, ins.arg, overflow_checks)
      [] ins.op = "Line" -> ExecLine(m)
      [] ins.op = "ChoiceSet" -> ExecChoiceSet(m, ins.arg)
      [] ins.op = "Jump" -> ExecJump(m, ins.arg)
      [] ins.op = "InitStorage" -> ExecInitStorage(m, ins.name)
      [] ins.op = "GetStorage" -> ExecGetStorage(m, ins.name)
      [] ins.op = "SetStorage" -> ExecSetStorage(m, ins.name)
      [] ins.op = "GetHost" -> ExecGetHost(host, m, ins.name)
      [] ins.op = "Return" -> ExecReturn(m)

\* VM::run: fetch, increment ip, execute, until an arm returns.
RECURSIVE run(_, _, _, _)
run(chunk, host, overflow_checks, m) ==
    IF m.ip >= Len(chunk.code) THEN Fail(m, Panic)
    ELSE CHOOSE out \in
            {IF after.res.kind = "Continue"
             THEN run(chunk, host, overflow_checks, after)
             ELSE after :
                after \in {Exec(chunk, host, overflow_checks, fetched, chunk.code[m.ip + 1]) :
                              fetched \in {[m EXCEPT !.ip = @ + 1,
                                                    !.trace = Append(@, m.ip)]}}} : TRUE

step(chunk, host, overflow_checks, m) == run(chunk, host, overflow_checks, m)

\* The bounds test off by one.
IndexOutOfRange_OffByOne(index, count) == index > count

\* index >= count
IndexOutOfRange(index, count) == index >= count

\* The jump table read at 0 whatever the index.
ChoiceJump_First(m, targets, index) ==
    IF index >= Len(targets) THEN Fail(m, Panic)
    ELSE [m EXCEPT !.ip = targets[1]]

\* self.ip += 1; self.ip = targets[index];
ChoiceJump(m, targets, index) ==
    IF index >= Len(targets) THEN Fail(m, Panic)
    ELSE [m EXCEPT !.ip = targets[index + 1]]

select_and_continue(chunk, host, overflow_checks, m, index) ==
    IF m.ip >= Len(chunk.code) THEN Fail(m, Panic)
    ELSE LET instruction == chunk.code[m.ip + 1]
         IN IF instruction.op = "ChoiceSet"
            THEN IF IndexOutOfRange(index, instruction.arg)
                 THEN Fail(m, InvalidChoiceIndex(index, instruction.arg))
                 ELSE CHOOSE out \in
                         {IF jumped.res.kind = "Panic" THEN jumped
                          ELSE run(chunk, host, overflow_checks, jumped) :
                             jumped \in {ChoiceJump(m, instruction.targets, index)}} : TRUE
            ELSE Fail(m, NotAtChoice)

\* is_at_end without the Jump arm.
is_at_end_NoJumps(chunk, ip) ==
    IF ip >= Len(chunk.code) THEN TRUE ELSE chunk.code[ip + 1].op = "Return"

\* VM::is_at_end: follows Jumps from ip; true at Return or past the end.
RECURSIVE is_at_end(_, _)
is_at_end(chunk, ip) ==
    IF ip >= Len(chunk.code) THEN TRUE
    ELSE LET ins == chunk.code[ip + 1]
         IN CASE ins.op = "Return" -> TRUE
              [] ins.op = "Jump" -> is_at_end(chunk, ins.arg)
              [] ins.op = "ChoiceSet" -> FALSE
              [] OTHER -> FALSE

(***************************************************************************)
(* Runtime (lib.rs).  rt is [vm, current_line, current_choices, is_done];  *)
(* the storage is shared with the host and passed alongside.  An operation *)
(* yields an outcome: the runtime and storage after it, its result, and    *)
(* the result, trace and handle calls of the VM call it made (if any).     *)
(***************************************************************************)
Outcome(rt, st, r, vmres, trace, calls) ==
    [rt |-> rt, storage |-> st, res |-> r, vmres |-> vmres,
     trace |-> trace, calls |-> calls]

current_line(rt) == IF rt.current_line.some THEN rt.current_line.v ELSE ""
current_choices(rt) == IF rt.current_choices.some THEN rt.current_choices.v ELSE <<>>
has_more(rt) == ~rt.is_done
is_waiting_for_choice(rt) == rt.current_choices.some

\* handle_step_result whose Choice arm leaves current_line as it was.
handle_step_result_KeepLine(chunk, rt, result) ==
    CASE result.kind = "Line" ->
            [rt EXCEPT !.current_line = Some(result.text),
                       !.is_done = is_at_end(chunk, rt.vm.ip)]
      [] result.kind = "Choice" ->
            [rt EXCEPT !.current_choices = Some(result.choices)]
      [] result.kind = "Done" ->
            [rt EXCEPT !.current_line = None, !.is_done = TRUE]

\* handle_step_result whose Done arm does not set is_done.
handle_step_result_DoneUnrecorded(chunk, rt, result) ==
    CASE result.kind = "Line" ->
            [rt EXCEPT !.current_line = Some(result.text),
                       !.is_done = is_at_end(chunk, rt.vm.ip)]
      [] result.kind = "Choice" ->
            [rt EXCEPT !.current_line = None,
                       !.current_choices = Some(result.choices)]
      [] result.kind = "Done" ->
            [rt EXCEPT !.current_line = None]

\* rt.vm already holds the VM state after the step that gave result.
handle_step_result(chunk, rt, result) ==
    CASE result.kind = "Line" ->
            [rt EXCEPT !.current_line = Some(result.text),
                       !.is_done = is_at_end(chunk, rt.vm.ip)]
      [] result.kind = "Choice" ->
            [rt EXCEPT !.current_line = None,
                       !.current_choices = Some(result.choices)]
      [] result.kind = "Done" ->
            [rt EXCEPT !.current_line = None, !.is_done = TRUE]

\* What a finished VM call m leaves: on Ok the result is handled, on Err
\* (the ? operator) or a panic only the VM's own changes remain.
AfterVmCall(chunk, rt, m) ==
    LET rt1 == [rt EXCEPT !.vm = [ip |-> m.ip, stack |-> m.stack]]
    IN IF m.res.kind \in StepKinds
       THEN Outcome(handle_step_result(chunk, rt1, m.res), m.storage, Ok, m.res,
                    m.trace, m.calls)
       ELSE Outcome(rt1, m.storage, m.res, m.res, m.trace, m.calls)

\* step_vm as a transaction: an Err gives back the storage as it was.
step_vm_Rollback(chunk, host, overflow_checks, rt, st) ==
    CHOOSE out \in
        {IF m.res.kind \in RuntimeErrorKinds
         THEN Outcome([rt EXCEPT !.vm = [ip |-> m.ip, stack |-> m.stack]],
                      st, m.res, m.res, m.trace, m.calls)
         ELSE AfterVmCall(chunk, rt, m) :
            m \in {step(chunk, host, overflow_checks, Machine(rt.vm, st))}} : TRUE

step_vm(chunk, host, overflow_checks, rt, st) ==
    CHOOSE out \in
        {AfterVmCall(chunk, rt, m) :
            m \in {step(chunk, host, overflow_checks, Machine(rt.vm, st))}} : TRUE

\* advance without the is_done test.
advance_Unguarded(chunk, host, overflow_checks, rt, st) ==
    step_vm(chunk, host, overflow_checks, rt, st)

advance(chunk, host, overflow_checks, rt, st) ==
    IF ~rt.is_done
    THEN step_vm(chunk, host, overflow_checks, rt, st)
    ELSE Outcome(rt, st, Ok, NoCall, <<>>, <<>>)

\* select_choice without the current_choices test.
select_choice_Unguarded(chunk, host, overflow_checks, rt, st, index) ==
    CHOOSE out \in
        {AfterVmCall(chunk, [rt EXCEPT !.current_choices = None], m) :
            m \in {select_and_continue(chunk, host, overflow_checks,
                                       Machine(rt.vm, st), index)}} : TRUE

\* select_choice that leaves current_choices set.
select_choice_KeepChoices(chunk, host, overflow_checks, rt, st, index) ==
    IF rt.current_choices.some
    THEN CHOOSE out \in
            {AfterVmCall(chunk, rt, m) :
                m \in {select_and_continue(chunk, host, overflow_checks,
                                           Machine(rt.vm, st), index)}} : TRUE
    ELSE Outcome(rt, st, Ok, NoCall, <<>>, <<>>)

select_choice(chunk, host, overflow_checks, rt, st, index) ==
    IF rt.current_choices.some
    THEN CHOOSE out \in
            {AfterVmCall(chunk, [rt EXCEPT !.current_choices = None], m) :
                m \in {select_and_continue(chunk, host, overflow_checks,
                                           Machine(rt.vm, st), index)}} : TRUE
    ELSE Outcome(rt, st, Ok, NoCall, <<>>, <<>>)

RuntimeInit ==
    [vm |-> VMNew, current_line |-> None, current_choices |-> None, is_done |-> FALSE]

\* Runtime::new without its initial step.
InitialStep_Skipped(chunk, host, overflow_checks, rt, st) ==
    Outcome(rt, st, Ok, NoCall, <<>>, <<>>)

\* runtime.step_vm()? at the end of Runtime::new.
InitialStep(chunk, host, overflow_checks, rt, st) ==
    step_vm(chunk, host, overflow_checks, rt, st)

\* Runtime::new: [chunk, out]; out.res is Ok exactly when a Runtime is
\* handed back.
NewCompiled(chunk, st, host, overflow_checks) ==
    [chunk |-> chunk, out |-> InitialStep(chunk, host, overflow_checks, RuntimeInit, st)]

\* let symbols = Resolver::new(&ast).analyze()?; then compile and run.
NewParsed(ast, st, host, overflow_checks) ==
    CHOOSE made \in
        {IF ~symbols.ok
         THEN [chunk |-> EmptyChunk,
               out |-> Outcome(RuntimeInit, st, SemanticErr, NoCall, <<>>, <<>>)]
         ELSE NewCompiled(compile(ast, symbols), st, host, overflow_checks) :
            symbols \in {analyze(ast)}} : TRUE

\* Runtime::new without the ? after parse(): the recovered AST is used.
RuntimeNew_IgnoreParseErrors(src, st, host, overflow_checks) ==
    NewParsed(Parse(src), st, host, overflow_checks)

RuntimeNew(src, st, host, overflow_checks) ==
    CHOOSE made \in
        {IF ~ast.ok
         THEN [chunk |-> EmptyChunk,
               out |-> Outcome(RuntimeInit, st, ParseErr, NoCall, <<>>, <<>>)]
         ELSE NewParsed(ast, st, host, overflow_checks) :
            ast \in {Parse(src)}} : TRUE

(***************************************************************************)
(* Scripts, storages and hosts the model runs.                             *)
(***************************************************************************)
Names == {"x", "y", "g", "h"}

ChoiceTemps ==
    StmtChoiceSet(<<
        Choice(<<Literal("A")>>,
               <<TempDecl("y", Num(1)), StmtLine(<<Literal("a"), VarRef("y")>>)>>),
        Choice(<<Literal("B")>>,
               <<StmtChoiceSet(<<Choice(<<Literal("C")>>, <<StmtLine(<<Literal("c")>>)>>)>>)>>)
    >>)

ChoiceSaves ==
    StmtChoiceSet(<<
        Choice(<<Literal("S")>>,
               <<Assignment("g", Num(7)), StmtLine(<<VarRef("g")>>)>>),
        Choice(<<Literal("T")>>, <<>>)
    >>)

\* A save variable declared in one branch only and read after the set.
ChoiceSaveDecl ==
    StmtChoiceSet(<<
        Choice(<<Literal("D")>>, <<SaveDecl("g", Num(0))>>),
        Choice(<<Literal("E")>>, <<>>)
    >>)

Alphabet ==
    { TempDecl("x", Str("hi")),
      SaveDecl("g", Num(0)),
      ExternDecl("h"),
      Assignment("g", Num(7)),
      Assignment("x", Str("yo")),
      StmtLine(<<Literal("A")>>),
      StmtLine(<<VarRef("x"), Literal(", world!")>>),
      StmtLine(<<VarRef("g")>>),
      StmtLine(<<VarRef("h")>>),
      ChoiceTemps,
      ChoiceSaves,
      ChoiceSaveDecl }

StatementLists == UNION {[1..n -> Alphabet] : n \in 0..MaxStmts}

\* Declarations a script may open with, before its statement list.
Preludes == {<<>>, <<SaveDecl("g", Num(0)), ExternDecl("h")>>}

\* A source text: one that does not parse, or the text of a statement list.
Sources ==
    {[parse_errors |-> 1, statements |-> <<>>]}
    \cup {[parse_errors |-> 0, statements |-> d \o l] :
             d \in Preludes, l \in StatementLists}

ValidSources == {src \in Sources : Parse(src).ok /\ analyze(Parse(src)).ok}

NoValues == [n \in Names |-> None]
Storages == {NoValues, [NoValues EXCEPT !["g"] = Some(Num(5))]}
Hosts == {NoValues, [NoValues EXCEPT !["h"] = Some(Num(3))]}
\* What the host itself writes to the shared storage between calls.
HostWrites == {Num(9)}

(***************************************************************************)
(* State.                                                                  *)
(***************************************************************************)
VARIABLES
    source,           \* the script text given to Runtime::new
    host,             \* the HostState handle
    overflow_checks,  \* whether the build checks integer overflow
    chunk,            \* the compiled chunk the VM owns
    rt,               \* the Runtime (rt.vm is its VM)
    storage,          \* the shared VariableStorage
    phase,            \* "unconstructed", "live", "failed", "vm", "panicked"
    op,               \* the last call: [name, index]
    res,              \* what the last call returned
    vmres,            \* what the VM call inside the last call returned
    trace,            \* instruction indices the last call executed
    calls,            \* storage and host methods the last call called
    pre,              \* before the last call: [rt, storage, res]; the Resolver before its last visit
    last_ok,          \* kind of the last successful VM result
    sel_since,        \* select_choice called since the last Choice result
    hist,             \* the storage calls made so far, each with what get saw after it
    threads,          \* the threads sharing the storage: position and held lock
    resolver,         \* the Resolver being driven through a script
    todo,             \* what that Resolver has still to visit
    scanner,          \* the Scanner: [start, current, line]
    diag              \* the error being reported and the matcher in use

vars == <<source, host, overflow_checks, chunk, rt, storage, phase, op, res,
          vmres, trace, calls, pre, last_ok, sel_since,
          hist, threads, resolver, todo, scanner, diag>>

\* No storage client, thread or resolver of the other specifications is active.
Unused ==
    /\ hist = <<>>
    /\ threads = <<>>
    /\ resolver = ResolverNew
    /\ todo = <<>>
    /\ scanner = <<>>
    /\ diag = <<>>

Call(name, index) == [name |-> name, index |-> index]

Snapshot == [rt |-> rt, storage |-> storage, res |-> res]

\* The state after a call with outcome out; next is the phase when the call
\* neither failed nor panicked.
Apply(out, call, okPhase, errPhase) ==
    /\ rt' = out.rt
    /\ storage' = out.storage
    /\ res' = out.res
    /\ vmres' = out.vmres
    /\ trace' = out.trace
    /\ calls' = out.calls
    /\ op' = call
    /\ pre' = Snapshot
    /\ phase' = IF out.res.kind = "Panic" THEN "panicked"
                ELSE IF out.res.kind = "Ok" \/ out.res.kind \in StepKinds THEN okPhase
                ELSE errPhase
    /\ last_ok' = IF out.vmres.kind \in StepKinds THEN out.vmres.kind ELSE last_ok
    /\ sel_since' = IF out.vmres.kind = "Choice" THEN FALSE
                    ELSE IF call.name = "select_choice" THEN TRUE
                    ELSE sel_since
    /\ UNCHANGED <<hist, threads, resolver, todo, scanner, diag>>

(***************************************************************************)
(* Spec: a host drives one Runtime.                                        *)
(***************************************************************************)
Init ==
    /\ source \in Sources
    /\ host \in Hosts
    /\ storage \in Storages
    /\ overflow_checks \in BOOLEAN
    /\ chunk = EmptyChunk
    /\ rt = RuntimeInit
    /\ phase = "unconstructed"
    /\ op = Call("none", 0)
    /\ res = NoCall
    /\ vmres = NoCall
    /\ trace = <<>>
    /\ calls = <<>>
    /\ pre = [rt |-> RuntimeInit, storage |-> storage, res |-> NoCall]
    /\ last_ok = "None"
    /\ sel_since = FALSE
    /\ Unused

New ==
    /\ phase = "unconstructed"
    /\ \E made \in {RuntimeNew(source, storage, host, overflow_checks)} :
          /\ chunk' = made.chunk
          /\ Apply(made.out, Call("new", 0), "live", "failed")
    /\ UNCHANGED <<source, host, overflow_checks>>

Advance ==
    /\ phase = "live"
    /\ \E out \in {advance(chunk, host, overflow_checks, rt, storage)} :
          Apply(out, Call("advance", 0), "live", "live")
    /\ UNCHANGED <<source, host, overflow_checks, chunk>>

SelectChoice ==
    /\ phase = "live"
    /\ \E index \in 0..MaxIndex :
          \E out \in {select_choice(chunk, host, overflow_checks, rt, storage, index)} :
             Apply(out, Call("select_choice", index), "live", "live")
    /\ UNCHANGED <<source, host, overflow_checks, chunk>>

\* The host writes the shared storage through its own handle.
HostSet ==
    /\ phase = "live"
    /\ \E v \in HostWrites :
          Apply(Outcome(rt, storage_set(storage, "g", v), Ok, NoCall, <<>>, <<>>),
                Call("host_set", 0), "live", "live")
    /\ UNCHANGED <<source, host, overflow_checks, chunk>>

Next == New \/ Advance \/ SelectChoice \/ HostSet

Spec == Init /\ [][Next]_vars

(***************************************************************************)
(* VMSpec: a caller drives the VM's own step / select_and_continue.        *)
(***************************************************************************)
VMInit ==
    /\ source \in ValidSources
    /\ host \in Hosts
    /\ storage \in Storages
    /\ overflow_checks \in BOOLEAN
    /\ \E ast \in {Parse(source)} : chunk = compile(ast, analyze(ast))
    /\ rt = RuntimeInit
    /\ phase = "vm"
    /\ op = Call("none", 0)
    /\ res = NoCall
    /\ vmres = NoCall
    /\ trace = <<>>
    /\ calls = <<>>
    /\ pre = [rt |-> RuntimeInit, storage |-> storage, res |-> NoCall]
    /\ last_ok = "None"
    /\ sel_since = FALSE
    /\ Unused

\* The VM call's result is the call's result; the Runtime fields stay put.
VmOutcome(m) ==
    Outcome([rt EXCEPT !.vm = [ip |-> m.ip, stack |-> m.stack]],
            m.storage, m.res, m.res, m.trace, m.calls)

VMStep ==
    /\ phase = "vm"
    /\ \E m \in {step(chunk, host, overflow_checks, Machine(rt.vm, storage))} :
          Apply(VmOutcome(m), Call("step", 0), "vm", "vm")
    /\ UNCHANGED <<source, host, overflow_checks, chunk>>

VMSelect ==
    /\ phase = "vm"
    /\ \E index \in 0..MaxIndex :
          \E m \in {select_and_continue(chunk, host, overflow_checks,
                                        Machine(rt.vm, storage), index)} :
             Apply(VmOutcome(m), Call("select_and_continue", index), "vm", "vm")
    /\ UNCHANGED <<source, host, overflow_checks, chunk>>

VMNext == VMStep \/ VMSelect

VMSpec == VMInit /\ [][VMNext]_vars

(***************************************************************************)
(* Properties of the VM, checked under VMSpec.                             *)
(***************************************************************************)
InstrAt(i) == chunk.code[i + 1]
PauseOps == {"Line", "ChoiceSet", "Return"}
LastTraced == trace[Len(trace)]
AtChoiceSet(ip) == ip < Len(chunk.code) /\ InstrAt(ip).op = "ChoiceSet"
VmCall == op.name \in {"step", "select_and_continue"}

\* The branches of the ChoiceSet at c are laid out one after the other from
\* targets[1]; each ends with a Jump to the instruction where they rejoin.
BranchEnd(c) == InstrAt(InstrAt(c).targets[2] - 1).arg
InBranch(i, c, k) ==
    LET t == InstrAt(c).targets
    IN /\ t[k] <= i
       /\ i < (IF k < Len(t) THEN t[k + 1] ELSE BranchEnd(c))

\* C1: a call of step() or select_and_continue() executes instructions only
\* up to and including the first Line, ChoiceSet or Return it reaches: no
\* instruction but the last one executed is a pause instruction, the result
\* is the pause of that last instruction, and ip stays right after it (on it
\* for a ChoiceSet) until the next call.
C1_OnePausePerCall ==
    VmCall =>
        /\ \A i \in 1..(Len(trace) - 1) : InstrAt(trace[i]).op \notin PauseOps
        /\ (res.kind = "Line") =>
              (trace # <<>> /\ InstrAt(LastTraced).op = "Line"
                  /\ rt.vm.ip = LastTraced + 1)
        /\ (res.kind = "Choice") =>
              (trace # <<>> /\ InstrAt(LastTraced).op = "ChoiceSet"
                  /\ rt.vm.ip = LastTraced)
        /\ (res.kind = "Done") =>
              (trace # <<>> /\ InstrAt(LastTraced).op = "Return"
                  /\ rt.vm.ip = LastTraced + 1)

\* A call that stopped at a Line after several instructions although the
\* instruction after it is not the Return.
C1_Witness ==
    /\ VmCall
    /\ res.kind = "Line"
    /\ Len(trace) >= 3
    /\ InstrAt(rt.vm.ip).op \notin {"Return", "Jump"}

\* C2: at a ChoiceSet with n choices, select_and_continue(k) with k < n
\* resumes at targets[k] and executes no instruction of another choice's
\* branch.
C2_SelectedBranchOnly ==
    (/\ op.name = "select_and_continue"
     /\ AtChoiceSet(pre.rt.vm.ip)
     /\ op.index < InstrAt(pre.rt.vm.ip).arg) =>
        /\ trace # <<>>
        /\ trace[1] = InstrAt(pre.rt.vm.ip).targets[op.index + 1]
        /\ \A i \in 1..Len(trace) :
              \A k \in 1..InstrAt(pre.rt.vm.ip).arg :
                 (k # op.index + 1) => ~InBranch(trace[i], pre.rt.vm.ip, k)

\* The second of two choices is selected while the first one's branch holds
\* a SetStorage, and the run reaches its next pause.
C2_Witness ==
    /\ op.name = "select_and_continue"
    /\ AtChoiceSet(pre.rt.vm.ip)
    /\ InstrAt(pre.rt.vm.ip).arg = 2
    /\ op.index = 1
    /\ res.kind \in StepKinds
    /\ \E i \in 0..(Len(chunk.code) - 1) :
          InBranch(i, pre.rt.vm.ip, 1) /\ InstrAt(i).op = "SetStorage"

\* C3: wherever ip is not at a ChoiceSet, select_and_continue(i) returns
\* Err(NotAtChoice) and leaves ip and the stack unchanged.
C3_NotAtChoiceElsewhere ==
    (op.name = "select_and_continue" /\ ~AtChoiceSet(pre.rt.vm.ip)) =>
        (res = NotAtChoice /\ rt.vm = pre.rt.vm)

\* C4: at ChoiceSet{count: n}, select_and_continue(i) with i >= n returns
\* Err(InvalidChoiceIndex{i, n}), executes nothing and leaves ip, the stack
\* and the storage unchanged; a following select_and_continue(j) with j < n
\* starts at targets[j].
C4_InvalidIndexLeavesVm ==
    /\ (/\ op.name = "select_and_continue"
        /\ AtChoiceSet(pre.rt.vm.ip)
        /\ op.index >= InstrAt(pre.rt.vm.ip).arg) =>
            /\ res = InvalidChoiceIndex(op.index, InstrAt(pre.rt.vm.ip).arg)
            /\ trace = <<>>
            /\ calls = <<>>
            /\ rt.vm = pre.rt.vm
            /\ storage = pre.storage
    /\ (/\ op.name = "select_and_continue"
        /\ pre.res.kind = "InvalidChoiceIndex"
        /\ op.index < pre.res.count) =>
            /\ AtChoiceSet(pre.rt.vm.ip)
            /\ InstrAt(pre.rt.vm.ip).arg = pre.res.count
            /\ trace # <<>>
            /\ trace[1] = InstrAt(pre.rt.vm.ip).targets[op.index + 1]

\* A valid selection that presents a line right after a rejected one.
C4_Witness ==
    /\ op.name = "select_and_continue"
    /\ pre.res.kind = "InvalidChoiceIndex"
    /\ op.index < pre.res.count
    /\ res.kind = "Line"

(***************************************************************************)
(* Properties of the Runtime, checked under Spec.                          *)
(***************************************************************************)
RuntimeCall == op.name \in {"new", "advance", "select_choice"}

\* From ip on, only Jumps leading to the Return, or the Return itself.
RECURSIVE OnlyJumpsToReturn(_)
OnlyJumpsToReturn(ip) ==
    /\ ip < Len(chunk.code)
    /\ \/ InstrAt(ip).op = "Return"
       \/ /\ InstrAt(ip).op = "Jump"
          /\ InstrAt(ip).arg > ip
          /\ OnlyJumpsToReturn(InstrAt(ip).arg)

\* temp x = "hi" followed by the line {x}, world!
HelloWorld ==
    [parse_errors |-> 0,
     statements |-> <<TempDecl("x", Str("hi")),
                      StmtLine(<<VarRef("x"), Literal(", world!")>>)>>]

\* C5: when the line a new(), advance() or select_choice() call presented is
\* followed in the chunk only by Jumps leading to the Return, or by the
\* Return, has_more() is false right after the call and current_line() is
\* that line; the script temp x = "hi" / {x}, world! gives "hi, world!" and
\* has_more() false right after construction.
C5_LastLineEndsScript ==
    /\ (/\ phase = "live"
        /\ RuntimeCall
        /\ vmres.kind = "Line"
        /\ OnlyJumpsToReturn(rt.vm.ip)) =>
            (~has_more(rt) /\ current_line(rt) = vmres.text)
    /\ (source = HelloWorld /\ op.name = "new") =>
            /\ phase = "live"
            /\ current_line(rt) = "hi, world!"
            /\ ~has_more(rt)

\* A selection presented the last line of its branch: a Jump to the Return
\* follows it and the runtime reports no more content.
C5_Witness ==
    /\ phase = "live"
    /\ op.name = "select_choice"
    /\ vmres.kind = "Line"
    /\ InstrAt(rt.vm.ip).op = "Jump"
    /\ OnlyJumpsToReturn(rt.vm.ip)
    /\ ~has_more(rt)
    /\ current_line(rt) # ""

\* C6: whenever has_more() is true and the runtime is not waiting for a
\* choice, the next successful advance() presents a line or a choice set.
C6_HasMoreNeverOverReports ==
    (/\ op.name = "advance"
     /\ res = Ok
     /\ has_more(pre.rt)
     /\ ~is_waiting_for_choice(pre.rt)) =>
        vmres.kind \in {"Line", "Choice"}

\* C7: once has_more() is false it stays false, and every later advance()
\* and select_choice() returns Ok(()) without executing an instruction or
\* calling the storage or the host, leaving the VM, current_line,
\* current_choices and the storage unchanged.
C7_DoneIsTerminal ==
    (phase \in {"live", "panicked"} /\ ~has_more(pre.rt)) =>
        /\ ~has_more(rt)
        /\ (op.name \in {"advance", "select_choice"}) =>
              /\ res = Ok
              /\ vmres = NoCall
              /\ trace = <<>>
              /\ calls = <<>>
              /\ rt = pre.rt
              /\ storage = pre.storage

\* select_choice is called on a finished runtime whose script has written
\* the storage, with a line still on display.
C7_Witness ==
    /\ phase = "live"
    /\ ~has_more(pre.rt)
    /\ op.name = "select_choice"
    /\ storage["g"] = Some(Num(7))
    /\ current_line(rt) # ""

\* C8: current_choices() is non-empty only when the last successful VM
\* result was Choice and select_choice has not been called since;
\* current_line() is "" whenever the last successful VM result was Choice
\* or Done; current_line and current_choices are never both set.
C8_LineAndChoicesExclusive ==
    (phase = "live") =>
        /\ (current_choices(rt) # <<>>) => (last_ok = "Choice" /\ ~sel_since)
        /\ (last_ok \in {"Choice", "Done"}) => (current_line(rt) = "")
        /\ ~(rt.current_line.some /\ rt.current_choices.some)

\* A choice set arrives while a line is on display: the line is cleared.
C8_Witness ==
    /\ phase = "live"
    /\ op.name = "advance"
    /\ pre.rt.current_line.some
    /\ current_choices(rt) # <<>>
    /\ current_line(rt) = ""

\* C9: a Runtime returned by new() has executed exactly one VM step from
\* instruction 0: it presents the first line, or waits at the first choice
\* set with has_more() true, or is finished with current_line() "" and
\* has_more() false, which is the case of the empty source.
C9_NewHasStepped ==
    (op.name = "new" /\ phase = "live") =>
        /\ res = Ok
        /\ vmres.kind \in StepKinds
        /\ trace # <<>>
        /\ trace[1] = 0
        /\ InstrAt(LastTraced).op \in PauseOps
        /\ \A i \in 1..(Len(trace) - 1) : InstrAt(trace[i]).op \notin PauseOps
        /\ (vmres.kind = "Line") =>
              (rt.current_line = Some(vmres.text) /\ ~is_waiting_for_choice(rt))
        /\ (vmres.kind = "Choice") =>
              /\ is_waiting_for_choice(rt)
              /\ has_more(rt)
              /\ current_choices(rt) = vmres.choices
              /\ current_line(rt) = ""
        /\ (vmres.kind = "Done") =>
              /\ current_line(rt) = ""
              /\ ~has_more(rt)
              /\ ~is_waiting_for_choice(rt)
        /\ (source.statements = <<>>) => (vmres.kind = "Done")

\* new() returns a Runtime waiting at a choice set that opens the script
\* after a declaration.
C9_Witness ==
    /\ op.name = "new"
    /\ phase = "live"
    /\ is_waiting_for_choice(rt)
    /\ Len(current_choices(rt)) = 2
    /\ Len(trace) > 3

\* C10: when parsing or resolution fails (compilation cannot: CompileError
\* has no variant), Runtime::new returns Err(Parse) or Err(Semantic), hands
\* back no Runtime, runs no instruction and calls no method of the storage
\* or the host, so the storage is as it was before the call.
C10_FailedNewTouchesNothing ==
    (op.name = "new") =>
        /\ (~Parse(source).ok) => (res = ParseErr)
        /\ (Parse(source).ok /\ ~analyze(Parse(source)).ok) => (res = SemanticErr)
        /\ (res.kind \in {"Parse", "Semantic"}) =>
              /\ phase = "failed"
              /\ vmres = NoCall
              /\ trace = <<>>
              /\ calls = <<>>
              /\ rt = RuntimeInit
              /\ storage = pre.storage

\* new() fails on a script that declares a save variable and then breaks a
\* resolver rule, over a storage that already holds a value.
C10_Witness ==
    /\ op.name = "new"
    /\ phase = "failed"
    /\ res = SemanticErr
    /\ storage["g"].some
    /\ \E i \in 1..Len(source.statements) : source.statements[i].kind = "SaveDecl"

\* The storage after the SetStorage and InitStorage instructions among the
\* traced ones, each writing the constant pushed right before it.
WrittenValue(ip) == chunk.constants[InstrAt(ip - 1).arg + 1]
RECURSIVE Replay(_, _)
Replay(st, ips) ==
    IF ips = <<>> THEN st
    ELSE CHOOSE out \in
            {Replay(st1, Tail(ips)) :
                st1 \in {CASE InstrAt(Head(ips)).op = "SetStorage" ->
                                [st EXCEPT ![InstrAt(Head(ips)).name] =
                                                Some(WrittenValue(Head(ips)))]
                           [] InstrAt(Head(ips)).op = "InitStorage" ->
                                IF st[InstrAt(Head(ips)).name].some THEN st
                                ELSE [st EXCEPT ![InstrAt(Head(ips)).name] =
                                                Some(WrittenValue(Head(ips)))]
                           [] OTHER -> st}} : TRUE

\* What the traced instructions but the last add to the stack's length.
StackEffect(ins) ==
    CASE ins.op \in {"Constant", "GetLocal", "GetStorage", "GetHost"} -> 1
      [] ins.op \in {"SetLocal", "InitStorage", "SetStorage", "Line"} -> -1
      [] ins.op = "Concat" -> 1 - ins.arg
      [] ins.op = "ChoiceSet" -> 0 - ins.arg
      [] OTHER -> 0
RECURSIVE EffectBeforeLast(_)
EffectBeforeLast(ips) ==
    IF Len(ips) <= 1 THEN 0
    ELSE StackEffect(InstrAt(Head(ips))) + EffectBeforeLast(Tail(ips))

\* C11: when new(), advance() or select_choice() fails with a runtime
\* error, the storage holds every write executed in that step on top of what
\* it held before the step: nothing is rolled back, the failing initial step
\* of Runtime::new included.
C11_ErrorKeepsWrites ==
    (RuntimeCall /\ res.kind \in RuntimeErrorKinds) =>
        /\ storage = Replay(pre.storage, trace)
        /\ \A n \in Names : pre.storage[n].some => storage[n].some

\* Runtime::new fails at a missing host variable after its initial step
\* has initialised and then set a save variable.
C11_Witness ==
    /\ op.name = "new"
    /\ phase = "failed"
    /\ res = MissingExternVariable("h")
    /\ ~pre.storage["g"].some
    /\ storage["g"] = Some(Num(7))

\* C12: after advance() or select_choice() returned a runtime error, a
\* later advance() or select_choice() presents no line and no choice set and
\* writes nothing to the storage.
C12_ErrorStopsProgress ==
    (/\ op.name \in {"advance", "select_choice"}
     /\ pre.res.kind \in RuntimeErrorKinds) =>
        /\ vmres.kind \notin {"Line", "Choice"}
        /\ storage = pre.storage

\* C13: a GetStorage{name} executed while the storage has no value for name
\* ends the call with Err(MissingSaveVariable{name}), a GetHost{name} while
\* the host has none with Err(MissingExternVariable{name}); the failing
\* instruction is the last one executed, pushes nothing and writes nothing.
C13_MissingIsAnError ==
    RuntimeCall =>
        /\ \A i \in 1..Len(trace) :
              /\ (/\ InstrAt(trace[i]).op = "GetStorage"
                  /\ ~storage[InstrAt(trace[i]).name].some) =>
                    (i = Len(trace) /\ res = MissingSaveVariable(InstrAt(trace[i]).name))
              /\ (/\ InstrAt(trace[i]).op = "GetHost"
                  /\ ~host[InstrAt(trace[i]).name].some) =>
                    (i = Len(trace) /\ res = MissingExternVariable(InstrAt(trace[i]).name))
        /\ (res.kind \in {"MissingSaveVariable", "MissingExternVariable"}) =>
              /\ InstrAt(LastTraced).op =
                    (IF res.kind = "MissingSaveVariable" THEN "GetStorage" ELSE "GetHost")
              /\ InstrAt(LastTraced).name = res.name
              /\ Len(rt.vm.stack) = Len(pre.rt.vm.stack) + EffectBeforeLast(trace)
              /\ storage = Replay(pre.storage, trace)
              /\ calls[Len(calls)] =
                    (IF res.kind = "MissingSaveVariable" THEN "get" ELSE "lookup")

\* A save variable declared in the branch that was not taken is read.
C13_Witness ==
    /\ op.name = "select_choice"
    /\ res = MissingSaveVariable("g")
    /\ InstrAt(LastTraced).op = "GetStorage"
    /\ ~storage["g"].some


(***************************************************************************)
(* StorageSpec: the host and the VM call one MemoryStorage in sequence.    *)
(***************************************************************************)
MaxCalls == 3

StorageNames == {"g", "h"}
StorageValues == {Num(0), Num(7)}

StorageInit ==
    /\ source = [parse_errors |-> 0, statements |-> <<>>]
    /\ host = NoValues
    /\ storage = NoValues
    /\ overflow_checks = TRUE
    /\ chunk = EmptyChunk
    /\ rt = RuntimeInit
    /\ phase = "storage"
    /\ op = Call("none", 0)
    /\ res = NoCall
    /\ vmres = NoCall
    /\ trace = <<>>
    /\ calls = <<>>
    /\ pre = [rt |-> RuntimeInit, storage |-> storage, res |-> NoCall]
    /\ last_ok = "None"
    /\ sel_since = FALSE
    /\ Unused

\* The state after the storage call m(n, v) that left the storage as st; the
\* history records the call and what get(n) returns once it is over.
StorageApply(m, n, v, st) ==
    /\ storage' = st
    /\ hist' = Append(hist, [m |-> m, n |-> n, v |-> v, got |-> storage_get(st, n)])
    /\ op' = Call(m, 0)
    /\ pre' = Snapshot
    /\ UNCHANGED <<source, host, overflow_checks, phase, last_ok, sel_since,
                   threads, resolver, todo, scanner, diag>>

\* The host calls set(n, v).
StorageSet ==
    /\ Len(hist) < MaxCalls
    /\ \E n \in StorageNames, v \in StorageValues :
          \E st \in {storage_set(storage, n, v)} : StorageApply("set", n, v, st)
    /\ UNCHANGED <<chunk, rt, res, vmres, trace, calls>>

\* The host calls initialize_if_absent(n, d).
StorageInitialize ==
    /\ Len(hist) < MaxCalls
    /\ \E n \in StorageNames, d \in StorageValues :
          \E st \in {initialize_if_absent(storage, n, d)} :
             StorageApply("initialize_if_absent", n, d, st)
    /\ UNCHANGED <<chunk, rt, res, vmres, trace, calls>>

\* A VM runs the chunk of `save n = d` against the storage: its InitStorage
\* arm executes.
StorageInitStorage ==
    /\ Len(hist) < MaxCalls
    /\ \E n \in StorageNames, d \in StorageValues :
          \E ast \in {Parse([parse_errors |-> 0, statements |-> <<SaveDecl(n, d)>>])} :
             \E ch \in {compile(ast, analyze(ast))} :
                \E m \in {step(ch, host, overflow_checks, Machine(VMNew, storage))} :
                   /\ StorageApply("InitStorage", n, d, m.storage)
                   /\ chunk' = ch
                   /\ rt' = [rt EXCEPT !.vm = [ip |-> m.ip, stack |-> m.stack]]
                   /\ res' = m.res
                   /\ vmres' = m.res
                   /\ trace' = m.trace
                   /\ calls' = m.calls

StorageNext == StorageSet \/ StorageInitialize \/ StorageInitStorage

StorageSpec == StorageInit /\ [][StorageNext]_vars

\* What get(n) returned before call j of the history: the empty storage has
\* no value, afterwards it is what the latest earlier call on n left.
RECURSIVE GotBefore(_, _)
GotBefore(j, n) ==
    IF j = 1 THEN None
    ELSE IF hist[j - 1].n = n THEN hist[j - 1].got
    ELSE GotBefore(j - 1, n)

InitCalls == {"initialize_if_absent", "InitStorage"}

\* C14: in every sequence of set and initialize_if_absent calls on one
\* storage, initialize_if_absent(n, d) changes the stored value exactly when
\* n was absent (and then stores d); once n is present every later
\* initialize_if_absent leaves get(n) as it was; set(n, v) stores v.  The
\* VM's InitStorage instruction calls initialize_if_absent and nothing else,
\* and its step ends without an error.
C14_InitOnlyIfAbsent ==
    /\ \A j \in 1..Len(hist) :
          LET c == hist[j]
              before == GotBefore(j, c.n)
          IN /\ c.m \in InitCalls =>
                   /\ (c.got # before) <=> ~before.some
                   /\ c.got = IF before.some THEN before ELSE Some(c.v)
             /\ c.m = "set" => c.got = Some(c.v)
    /\ (hist # <<>> /\ hist[Len(hist)].m \in InitCalls) =>
          LET c == hist[Len(hist)]
          IN /\ (storage # pre.storage) <=> ~pre.storage[c.n].some
             /\ \A n \in Names \ {c.n} : storage[n] = pre.storage[n]
    /\ op.name = "InitStorage" =>
          /\ calls = <<"initialize_if_absent">>
          /\ res = Done

C14_Witness ==
    /\ Len(hist) = 3
    /\ [j \in 1..3 |-> <<hist[j].m, hist[j].n, hist[j].v>>] =
          << <<"initialize_if_absent", "g", Num(0)>>,
             <<"set", "g", Num(7)>>,
             <<"InitStorage", "g", Num(0)>> >>
    /\ storage["g"] = Some(Num(7))


(***************************************************************************)
(* ConcSpec: a host thread calls set(n, v) while the VM's thread calls     *)
(* initialize_if_absent(n, d) on the same MemoryStorage.  Each method      *)
(* takes the RwLock's write guard, works on the map, and drops the guard   *)
(* at the end of its statement.                                            *)
(***************************************************************************)
\* A write() that does not wait for the other guard.
write_NoExclusion(lock) == TRUE

\* RwLock::write returns once no other guard is held.
write(lock) == lock = "free"

ConcInit ==
    /\ source = [parse_errors |-> 0, statements |-> <<>>]
    /\ host = NoValues
    /\ storage \in Storages
    /\ overflow_checks = TRUE
    /\ chunk = EmptyChunk
    /\ rt = RuntimeInit
    /\ phase = "threads"
    /\ op = Call("none", 0)
    /\ res = NoCall
    /\ vmres = NoCall
    /\ trace = <<>>
    /\ calls = <<>>
    /\ pre = [rt |-> RuntimeInit, storage |-> storage, res |-> NoCall]
    /\ last_ok = "None"
    /\ sel_since = FALSE
    /\ hist = <<>>
    /\ \E hn \in StorageNames, v \in StorageValues, vn \in StorageNames, d \in StorageValues :
          threads = [lock |-> "free",
                     host |-> [pc |-> "start", n |-> hn, v |-> v, vacant |-> FALSE],
                     vm |-> [pc |-> "start", n |-> vn, v |-> d, vacant |-> FALSE]]
    /\ resolver = ResolverNew
    /\ todo = <<>>
    /\ scanner = <<>>
    /\ diag = <<>>

\* One step of thread t: the lock, the thread and the map change.
ConcApply(t, lock, thread, st) ==
    /\ threads' = [threads EXCEPT !.lock = lock, ![t] = thread]
    /\ storage' = st
    /\ UNCHANGED <<source, host, overflow_checks, chunk, rt, phase, op, res, vmres,
                   trace, calls, pre, last_ok, sel_since, hist, resolver, todo,
                   scanner, diag>>

\* self.values.write().unwrap() in set (host) and initialize_if_absent (vm)
ConcWrite(t) ==
    /\ phase = "threads" /\ threads[t].pc = "start"
    /\ write(threads.lock)
    /\ ConcApply(t, t, [threads[t] EXCEPT !.pc = "locked"], storage)

\* .insert(name.to_string(), value)
HostInsert ==
    /\ phase = "threads" /\ threads.host.pc = "locked"
    /\ ConcApply("host", threads.lock, [threads.host EXCEPT !.pc = "written"],
                 storage_set(storage, threads.host.n, threads.host.v))

\* .entry(name.to_string()): the entry is vacant or occupied
VmEntry ==
    /\ phase = "threads" /\ threads.vm.pc = "locked"
    /\ ConcApply("vm", threads.lock,
                 [threads.vm EXCEPT !.pc = "entry",
                                    !.vacant = ~storage_get(storage, threads.vm.n).some],
                 storage)

\* .or_insert(default): a vacant entry is filled
VmOrInsert ==
    /\ phase = "threads" /\ threads.vm.pc = "entry"
    /\ ConcApply("vm", threads.lock, [threads.vm EXCEPT !.pc = "written"],
                 IF threads.vm.vacant
                 THEN [storage EXCEPT ![threads.vm.n] = Some(threads.vm.v)]
                 ELSE storage)

\* the write guard is dropped at the end of the statement
ConcDrop(t) ==
    /\ phase = "threads" /\ threads[t].pc = "written"
    /\ ConcApply(t, "free", [threads[t] EXCEPT !.pc = "done"], storage)

ConcNext ==
    \/ ConcWrite("host") \/ HostInsert \/ ConcDrop("host")
    \/ ConcWrite("vm") \/ VmEntry \/ VmOrInsert \/ ConcDrop("vm")

ConcSpec == ConcInit /\ [][ConcNext]_vars

Holding == {"locked", "entry", "written"}

\* C15: in every interleaving of the host's set(n, v) with the VM's
\* initialize_if_absent(n, d) on one MemoryStorage, the two never hold the
\* guard together, nothing changes the entry between the VM's check and its
\* insert, and from the moment set has written n the value of n is v: d
\* never overwrites it and v is the final value.
C15_InitIsAtomic ==
    /\ ~(threads.host.pc \in Holding /\ threads.vm.pc \in Holding)
    /\ (threads.vm.pc = "entry") =>
          (threads.vm.vacant <=> ~storage[threads.vm.n].some)
    /\ (threads.host.n = threads.vm.n /\ threads.host.pc \in {"written", "done"}) =>
          storage[threads.host.n] = Some(threads.host.v)
    /\ (threads.host.pc = "done" /\ threads.vm.pc = "done") =>
          /\ storage[threads.host.n] = Some(threads.host.v)
          /\ threads.vm.n # threads.host.n =>
                storage[threads.vm.n] = initialize_if_absent(pre.storage, threads.vm.n,
                                                             threads.vm.v)[threads.vm.n]

C15_Witness ==
    /\ threads.host.pc = "done" /\ threads.vm.pc = "done"
    /\ threads.host.n = "g" /\ threads.vm.n = "g"
    /\ threads.host.v = Num(7) /\ threads.vm.v = Num(0)
    /\ ~pre.storage["g"].some
    /\ ~threads.vm.vacant
    /\ storage["g"] = Some(Num(7))


(***************************************************************************)
(* ResolverSpec: the Resolver walks a script one visit at a time.  The     *)
(* walk of analyze / resolve_stmt / resolve_choice_branch is laid out as   *)
(* the sequence of the Resolver methods it calls, in call order.           *)
(***************************************************************************)
MaxDecls == 3

Visit(ev, id, name, for_write) ==
    [ev |-> ev, id |-> id, name |-> name, for_write |-> for_write]

\* resolve_text_parts: one resolve_reference per VarRef part.
RECURSIVE VisitParts(_)
VisitParts(parts) ==
    IF parts = <<>> THEN <<>>
    ELSE (IF Head(parts).kind = "VarRef"
          THEN <<Visit("resolve_reference", Head(parts).id, Head(parts).name, FALSE)>>
          ELSE <<>>) \o VisitParts(Tail(parts))

RECURSIVE VisitChoiceTexts(_)
VisitChoiceTexts(choices) ==
    IF choices = <<>> THEN <<>>
    ELSE VisitParts(Head(choices).parts) \o VisitChoiceTexts(Tail(choices))

RECURSIVE VisitStmts(_)
RECURSIVE VisitBranches(_, _, _)

\* The nested blocks of all the choices resolved in one scope.
VisitBranches_OneScope(choices, id, c) ==
    IF c > Len(choices) THEN <<>>
    ELSE (IF c = 1 THEN <<Visit("push_scope", id \o <<1>>, "", FALSE)>> ELSE <<>>)
         \o VisitStmts(choices[c].nested)
         \o (IF c = Len(choices) THEN <<Visit("pop_scope", id \o <<1>>, "", FALSE)>>
             ELSE <<>>)
         \o VisitBranches(choices, id, c + 1)

\* resolve_choice_branch for the choices from c on; a block is named by the
\* id of its ChoiceSet followed by the choice's number.
VisitBranches(choices, id, c) ==
    IF c > Len(choices) THEN <<>>
    ELSE <<Visit("push_scope", id \o <<c>>, "", FALSE)>>
         \o VisitStmts(choices[c].nested)
         \o <<Visit("pop_scope", id \o <<c>>, "", FALSE)>>
         \o VisitBranches(choices, id, c + 1)

\* resolve_stmt
VisitStmt(stmt) ==
    CASE stmt.kind = "TempDecl" -> <<Visit("declare_temp", stmt.id, stmt.name, FALSE)>>
      [] stmt.kind = "SaveDecl" -> <<Visit("declare_save", stmt.id, stmt.name, FALSE)>>
      [] stmt.kind = "ExternDecl" -> <<Visit("declare_extern", stmt.id, stmt.name, FALSE)>>
      [] stmt.kind = "Assignment" ->
            <<Visit("resolve_reference", stmt.id, stmt.name, TRUE)>>
      [] stmt.kind = "Line" -> VisitParts(stmt.parts)
      [] stmt.kind = "ChoiceSet" ->
            <<Visit("choice_set", stmt.id, "", FALSE)>>
            \o VisitChoiceTexts(stmt.choices)
            \o VisitBranches(stmt.choices, stmt.id, 1)

VisitStmts(stmts) ==
    IF stmts = <<>> THEN <<>>
    ELSE VisitStmt(Head(stmts)) \o VisitStmts(Tail(stmts))

\* Scripts the Resolver is given.
SiblingTemps ==
    StmtChoiceSet(<<Choice(<<Literal("A")>>, <<TempDecl("x", Num(1))>>),
                    Choice(<<Literal("B")>>, <<TempDecl("y", Num(2)), TempDecl("x", Num(3))>>)>>)
NestedTemps ==
    StmtChoiceSet(<<Choice(<<Literal("A"), VarRef("x")>>,
                           <<TempDecl("y", Num(1)),
                             StmtChoiceSet(<<Choice(<<Literal("C")>>, <<TempDecl("x", Num(2))>>),
                                             Choice(<<Literal("D")>>, <<TempDecl("h", Num(3)),
                                                                        StmtLine(<<VarRef("y")>>)>>)>>)>>),
                    Choice(<<Literal("B")>>, <<TempDecl("y", Num(4))>>)>>)
BranchGlobals ==
    StmtChoiceSet(<<Choice(<<Literal("A")>>, <<SaveDecl("x", Num(0))>>),
                    Choice(<<Literal("B")>>, <<ExternDecl("h"), Assignment("h", Num(1))>>)>>)
SiblingReference ==
    StmtChoiceSet(<<Choice(<<Literal("A"), VarRef("y")>>, <<TempDecl("y", Num(1))>>),
                    Choice(<<Literal("B")>>, <<StmtLine(<<VarRef("y")>>)>>)>>)

ResolverAlphabet ==
    {TempDecl("x", Num(1)),
     SaveDecl("x", Num(0)),
     ExternDecl("x"), ExternDecl("h"),
     Assignment("x", Num(7)),
     StmtLine(<<VarRef("x")>>),
     SiblingTemps, NestedTemps, BranchGlobals, SiblingReference}

ResolverSources ==
    UNION {[1..n -> ResolverAlphabet] : n \in 0..MaxDecls}

ResolverInit ==
    /\ \E l \in ResolverSources : source = [parse_errors |-> 0, statements |-> l]
    /\ host = NoValues
    /\ storage = NoValues
    /\ overflow_checks = TRUE
    /\ chunk = EmptyChunk
    /\ rt = RuntimeInit
    /\ phase = "resolving"
    /\ op = Visit("new", <<>>, "", FALSE)
    /\ res = NoCall
    /\ vmres = NoCall
    /\ trace = <<>>
    /\ calls = <<>>
    /\ pre = ResolverNew
    /\ last_ok = "None"
    /\ sel_since = FALSE
    /\ hist = <<>>
    /\ threads = <<>>
    /\ resolver = ResolverNew
    /\ todo = VisitStmts(Parse(source).statements)
    /\ scanner = <<>>
    /\ diag = <<>>

\* The storage classes under which r holds a declaration of name.
Classes(r, name) ==
    (IF \E i \in 1..Len(r.scopes) : name \in DOMAIN r.scopes[i].variables
     THEN {"temp"} ELSE {})
    \cup (IF name \in DOMAIN r.save_vars THEN {"save"} ELSE {})
    \cup (IF name \in DOMAIN r.extern_vars THEN {"extern"} ELSE {})

\* The state after the visit at the head of todo left the Resolver as r; the
\* history keeps the visit, the next free slot and the classes of its name
\* before it, and whether it added an error.
ResolverApply(r) ==
    /\ resolver' = r
    /\ pre' = resolver
    /\ op' = Head(todo)
    /\ todo' = Tail(todo)
    /\ hist' = Append(hist, [visit |-> Head(todo),
                             next_slot |-> resolver.next_slot,
                             classes |-> Classes(resolver, Head(todo).name),
                             failed |-> r.errors # resolver.errors])
    /\ UNCHANGED <<source, host, overflow_checks, chunk, rt, storage, phase, res,
                   vmres, trace, calls, last_ok, sel_since, threads, scanner, diag>>

Visiting(ev) == phase = "resolving" /\ todo # <<>> /\ Head(todo).ev = ev

DeclareTemp ==
    /\ Visiting("declare_temp")
    /\ \E v \in {Head(todo)} : ResolverApply(declare_temp(resolver, v.id, v.name, v.id))

DeclareSave ==
    /\ Visiting("declare_save")
    /\ \E v \in {Head(todo)} : ResolverApply(declare_save(resolver, v.id, v.name, v.id))

DeclareExtern ==
    /\ Visiting("declare_extern")
    /\ \E v \in {Head(todo)} : ResolverApply(declare_extern(resolver, v.id, v.name, v.id))

ResolveReference ==
    /\ Visiting("resolve_reference")
    /\ \E v \in {Head(todo)} :
          ResolverApply(resolve_reference(resolver, v.id, v.name, v.id, v.for_write))

\* The ChoiceSet arm of resolve_stmt is entered.
EnterChoiceSet ==
    /\ Visiting("choice_set")
    /\ ResolverApply(resolver)

PushScope ==
    /\ Visiting("push_scope")
    /\ ResolverApply(push_scope(resolver))

PopScope ==
    /\ Visiting("pop_scope")
    /\ ResolverApply(pop_scope(resolver))

\* The end of analyze: Ok(SymbolTable) or Err((errors, known_variables)).
\* The known-variable list of an Err, the context of the diagnostics made
\* from it, is kept in diag.
Analyze ==
    /\ phase = "resolving" /\ todo = <<>>
    /\ phase' = "analyzed"
    /\ res' = [ok |-> resolver.errors = <<>>,
               errors |-> resolver.errors,
               bindings |-> resolver.bindings,
               save_bindings |-> resolver.save_bindings,
               extern_bindings |-> resolver.extern_bindings]
    /\ diag' \in (IF resolver.errors = <<>> THEN {<<>>} ELSE known_variables(resolver))
    /\ UNCHANGED <<source, host, overflow_checks, chunk, rt, storage, op, vmres,
                   trace, calls, pre, last_ok, sel_since, hist, threads, resolver, todo,
                   scanner>>

ResolverNext ==
    \/ DeclareTemp \/ DeclareSave \/ DeclareExtern \/ ResolveReference
    \/ EnterChoiceSet \/ PushScope \/ PopScope \/ Analyze

ResolverSpec == ResolverInit /\ [][ResolverNext]_vars


(***************************************************************************)
(* Properties of the Resolver, checked under ResolverSpec.                 *)
(***************************************************************************)
\* Number of temps declared in the first n open scopes of r.
RECURSIVE LiveTemps(_, _)
LiveTemps(r, n) ==
    IF n = 0 THEN 0
    ELSE Cardinality(DOMAIN r.scopes[n].variables) + LiveTemps(r, n - 1)

\* The block a node sits in: its id without the last component.
Block(id) == SubSeq(id, 1, Len(id) - 1)

\* Visit j declared a temp.
DeclaredTemp(j) == hist[j].visit.ev = "declare_temp" /\ ~hist[j].failed

\* Visit j declared the first temp of a choice's nested block.
FirstTempOfChoice(j) ==
    /\ DeclaredTemp(j)
    /\ Len(hist[j].visit.id) >= 3
    /\ \A k \in 1..(j - 1) :
          ~(DeclaredTemp(k) /\ Block(hist[k].visit.id) = Block(hist[j].visit.id))

\* C16: the first temp declared in each choice's nested block gets the slot
\* that was next free when the ChoiceSet was reached, which is the number of
\* temps live in the enclosing scopes (0 when there is none); sibling choices
\* therefore reuse the same slot instead of numbering on.
C16_SiblingSlotReuse ==
    /\ resolver.next_slot = LiveTemps(resolver, Len(resolver.scopes))
    /\ \A i \in 1..Len(resolver.scopes) :
          resolver.scopes[i].start_slot = LiveTemps(resolver, i - 1)
    /\ \A j \in 1..Len(hist) :
          FirstTempOfChoice(j) =>
             \E k \in 1..(j - 1) :
                /\ hist[k].visit = Visit("choice_set", Block(Block(hist[j].visit.id)), "", FALSE)
                /\ resolver.bindings[hist[j].visit.id] = hist[k].next_slot

C16_Witness ==
    /\ todo = <<>>
    /\ \E j1, j2 \in 1..Len(hist) :
          /\ FirstTempOfChoice(j1) /\ FirstTempOfChoice(j2)
          /\ Block(hist[j1].visit.id) # Block(hist[j2].visit.id)
          /\ Block(Block(hist[j1].visit.id)) = Block(Block(hist[j2].visit.id))
          /\ resolver.bindings[hist[j1].visit.id] = 1
          /\ resolver.bindings[hist[j2].visit.id] = 1


Declarations == {"declare_temp", "declare_save", "declare_extern"}

\* Spans of the declarations of name that r holds: temps of the open scopes,
\* save variables and extern variables.
DeclaredSpans(r, name) ==
    {r.scopes[i].variables[name].span :
        i \in {k \in 1..Len(r.scopes) : name \in DOMAIN r.scopes[k].variables}}
    \cup (IF name \in DOMAIN r.save_vars THEN {r.save_vars[name].span} ELSE {})
    \cup (IF name \in DOMAIN r.extern_vars THEN {r.extern_vars[name].span} ELSE {})

\* C17: a temp, save or extern declaration of a name that is already a temp
\* of an open scope (the current one included), a save or an extern adds
\* exactly one Shadowing error, whose original span is the span of that
\* earlier declaration, and changes nothing else in the Resolver: no
\* variable, no slot, no binding.
C17_ShadowingRejected ==
    (op.ev \in Declarations /\ DeclaredSpans(pre, op.name) # {}) =>
        \E o \in DeclaredSpans(pre, op.name) :
           /\ DeclaredSpans(pre, op.name) = {o}
           /\ resolver = [pre EXCEPT !.errors = Append(@, Shadowing(op.name, op.id, o))]
           /\ \E k \in 1..(Len(hist) - 1) :
                 /\ hist[k].visit.ev \in Declarations
                 /\ hist[k].visit.name = op.name
                 /\ hist[k].visit.id = o
                 /\ ~hist[k].failed

C17_Witness ==
    /\ op.ev = "declare_save"
    /\ Len(pre.scopes) = 2
    /\ op.name \in DOMAIN pre.scopes[1].variables
    /\ resolver.errors = <<Shadowing(op.name, op.id, pre.scopes[1].variables[op.name].span)>>
    /\ op.name \notin DOMAIN resolver.save_vars


\* The node ids r has a binding for, in any of the three maps.
BoundIds(r) ==
    DOMAIN r.bindings \cup DOMAIN r.save_bindings \cup DOMAIN r.extern_bindings

\* C18: an assignment whose target is a declared extern variable adds
\* AssignmentToExtern with the name and the assignment's span and binds the
\* node in none of bindings, save_bindings and extern_bindings; a read of
\* the same name adds no error and records the extern binding.
C18_ExternIsReadOnly ==
    (op.ev = "resolve_reference" /\ op.name \in DOMAIN pre.extern_vars) =>
        IF op.for_write
        THEN /\ resolver.errors = Append(pre.errors, AssignmentToExtern(op.name, op.id))
             /\ op.id \notin BoundIds(resolver)
             /\ BoundIds(resolver) = BoundIds(pre)
        ELSE /\ resolver.errors = pre.errors
             /\ op.id \in DOMAIN resolver.extern_bindings
             /\ resolver.extern_bindings[op.id] = op.name
             /\ op.id \notin DOMAIN resolver.bindings \cup DOMAIN resolver.save_bindings

C18_Witness ==
    /\ op.ev = "resolve_reference" /\ op.for_write
    /\ op.name \in DOMAIN pre.extern_vars
    /\ resolver.errors = <<AssignmentToExtern(op.name, op.id)>>
    /\ \E id \in DOMAIN resolver.extern_bindings : resolver.extern_bindings[id] = op.name


\* The maps of r that hold a binding for node id.
MapsOf(r, id) ==
    (IF id \in DOMAIN r.bindings THEN {"temp"} ELSE {})
    \cup (IF id \in DOMAIN r.save_bindings THEN {"save"} ELSE {})
    \cup (IF id \in DOMAIN r.extern_bindings THEN {"extern"} ELSE {})

\* C19: when analyze returns Ok, the node of every temp declaration, save
\* declaration, assignment target and interpolated reference is a key of
\* exactly one of bindings, save_bindings and extern_bindings, the one of
\* the variable's storage class; the node of an extern declaration is a key
\* of none; and the maps hold no other key.
C19_OneBindingPerNode ==
    (phase = "analyzed" /\ res.ok) =>
        /\ res = analyze(Parse(source))
        /\ \A j \in 1..Len(hist) :
              LET v == hist[j].visit
                  maps == MapsOf(res, v.id)
              IN /\ v.ev = "declare_temp" => maps = {"temp"}
                 /\ v.ev = "declare_save" =>
                       maps = {"save"} /\ res.save_bindings[v.id] = v.name
                 /\ v.ev = "declare_extern" => maps = {}
                 /\ v.ev = "resolve_reference" =>
                       /\ maps = hist[j].classes
                       /\ Cardinality(maps) = 1
                       /\ "save" \in maps => res.save_bindings[v.id] = v.name
                       /\ "extern" \in maps => res.extern_bindings[v.id] = v.name
        /\ BoundIds(res) \subseteq {hist[j].visit.id : j \in 1..Len(hist)}

C19_Witness ==
    /\ phase = "analyzed" /\ res.ok
    /\ res.bindings # EmptyMap
    /\ res.extern_bindings # EmptyMap
    /\ \E j \in 1..Len(hist) : hist[j].visit.ev = "declare_extern"
    /\ \E j \in 1..Len(hist) :
          hist[j].visit.ev = "resolve_reference" /\ hist[j].classes = {"extern"}


\* Every name r holds a declaration of.
DeclaredNames(r) ==
    UNION {DOMAIN r.scopes[i].variables : i \in 1..Len(r.scopes)}
    \cup DOMAIN r.save_vars \cup DOMAIN r.extern_vars

\* C20: at every point of the analysis no name is at once in more than one
\* of the temps of the open scopes, save_vars and extern_vars, and no name
\* is declared in two open temp scopes.
C20_NamespacesExclusive ==
    \A name \in DeclaredNames(resolver) :
        /\ Cardinality(Classes(resolver, name)) = 1
        /\ Cardinality({i \in 1..Len(resolver.scopes) :
                           name \in DOMAIN resolver.scopes[i].variables}) <= 1

C20_Witness ==
    /\ Len(resolver.scopes) = 2
    /\ resolver.scopes[1].variables # EmptyMap
    /\ resolver.scopes[2].variables # EmptyMap
    /\ resolver.extern_vars # EmptyMap
    /\ resolver.errors = <<>>


(***************************************************************************)
(* Further properties of the Runtime, checked under Spec.                  *)
(***************************************************************************)
\* C27: on a chunk compiled from a valid script no sequence of advance and
\* select_choice calls makes the VM pop an empty stack, index the stack out
\* of range or fetch past the end of the chunk (each of which panics), and
\* advance while a choice is pending does not execute the ChoiceSet
\* instruction again.
C27_NoStackFault ==
    (op.name \in {"advance", "select_choice"}) =>
        /\ res.kind # "Panic"
        /\ (op.name = "advance" /\ pre.rt.current_choices.some) =>
              \A i \in 1..Len(trace) : InstrAt(trace[i]).op # "ChoiceSet"

\* C28: when select_choice returns InvalidChoiceIndex the Runtime is as it
\* was: still waiting for a choice, with the same choice texts, line and
\* done flag.
C28_InvalidIndexKeepsChoices ==
    (op.name = "select_choice" /\ res.kind = "InvalidChoiceIndex") =>
        /\ is_waiting_for_choice(rt)
        /\ current_choices(rt) = current_choices(pre.rt)
        /\ rt.current_line = pre.rt.current_line
        /\ rt.is_done = pre.rt.is_done

\* C29: select_choice on a Runtime that is not waiting for a choice returns
\* Ok for every index, calls neither the VM nor the storage or host and
\* changes nothing; and no Runtime call ever returns NotAtChoice.
C29_SelectWhenNotWaiting ==
    /\ (op.name = "select_choice" /\ ~is_waiting_for_choice(pre.rt)) =>
          /\ res = Ok
          /\ vmres = NoCall /\ trace = <<>> /\ calls = <<>>
          /\ rt = pre.rt
          /\ storage = pre.storage
    /\ RuntimeCall => res.kind # "NotAtChoice"

C29_Witness ==
    /\ op = Call("select_choice", 1)
    /\ ~is_waiting_for_choice(pre.rt)
    /\ pre.rt.current_line.some /\ ~pre.rt.is_done
    /\ res = Ok

\* C30: a Runtime that is waiting for a choice reports that it has more.
C30_WaitingHasMore ==
    is_waiting_for_choice(rt) => has_more(rt)

C30_Witness ==
    /\ phase = "live" /\ op.name = "select_choice" /\ res = Ok
    /\ is_waiting_for_choice(pre.rt) /\ is_waiting_for_choice(rt)
    /\ has_more(rt)


(***************************************************************************)
(* Scanner (scanner.rs).  A source text is a sequence of characters; spans *)
(* and the Scanner's start and current are byte offsets into its UTF-8     *)
(* encoding.  Slicing a str off a character boundary or past its end       *)
(* panics: the Scanner then carries fault = TRUE.                          *)
(***************************************************************************)
MaxChars == 4

\* The characters of the texts scanned: a letter, a three-byte character,
\* line feed and carriage return.
Chars == {"a", "euro", "LF", "CR"}

len_utf8(c) == IF c = "euro" THEN 3 ELSE 1

\* Byte offset of the end of the first n characters of text.
RECURSIVE ByteOffset(_, _)
ByteOffset(text, n) ==
    IF n = 0 THEN 0 ELSE ByteOffset(text, n - 1) + len_utf8(text[n])

\* str::len: the length in bytes.
ByteLen(text) == ByteOffset(text, Len(text))

\* The number of characters that end at byte offset off, or -1 when off
\* is past the end or inside a character.
CharsBefore(text, off) ==
    IF \E n \in 0..Len(text) : ByteOffset(text, n) = off
    THEN CHOOSE n \in 0..Len(text) : ByteOffset(text, n) = off
    ELSE -1

Span(start, end) == [start |-> start, end |-> end]
Token(kind, lexeme, span) == [kind |-> kind, lexeme |-> lexeme, span |-> span]

ScannerNew == [start |-> 0, current |-> 0, line |-> 1, fault |-> FALSE]

ScannerIsAtEnd(text, sc) == sc.current >= ByteLen(text)

\* self.source[self.current..].chars().next()
peek(text, sc) ==
    LET n == CharsBefore(text, sc.current)
    IN IF n = -1 THEN [some |-> FALSE, v |-> <<>>, fault |-> TRUE]
       ELSE IF n = Len(text) THEN [some |-> FALSE, v |-> <<>>, fault |-> FALSE]
       ELSE [some |-> TRUE, v |-> text[n + 1], fault |-> FALSE]

is_at_newline(text, sc) ==
    LET c == peek(text, sc) IN c.some /\ c.v \in {"LF", "CR"}

\* advance that moves on by one byte whatever the character.
ScannerAdvance_OneByte(text, sc) ==
    LET c == peek(text, sc)
    IN IF c.fault THEN [sc EXCEPT !.fault = TRUE]
       ELSE IF ~c.some THEN sc
       ELSE [sc EXCEPT !.current = @ + 1]

\* Scanner::advance; the character it returns is peek before the call.
ScannerAdvance(text, sc) ==
    LET c == peek(text, sc)
    IN IF c.fault THEN [sc EXCEPT !.fault = TRUE]
       ELSE IF ~c.some THEN sc
       ELSE [sc EXCEPT !.current = @ + len_utf8(c.v)]

\* &self.source[self.start..self.current] with its span
make_token(text, sc, kind) ==
    LET a == CharsBefore(text, sc.start)
        b == CharsBefore(text, sc.current)
    IN IF sc.fault \/ a = -1 \/ b = -1 \/ a > b
       THEN [sc |-> [sc EXCEPT !.fault = TRUE],
             token |-> Token("Panic", <<>>, Span(sc.start, sc.current))]
       ELSE [sc |-> sc,
             token |-> Token(kind, SubSeq(text, a + 1, b), Span(sc.start, sc.current))]

\* while !self.is_at_end() && !self.is_at_newline() { self.advance(); }
RECURSIVE ScanString(_, _)
ScanString(text, sc) ==
    IF sc.fault \/ peek(text, sc).fault THEN [sc EXCEPT !.fault = TRUE]
    ELSE IF ~ScannerIsAtEnd(text, sc) /\ ~is_at_newline(text, sc)
    THEN ScanString(text, ScannerAdvance(text, sc))
    ELSE sc

\* The carriage return arm without the look at the next character.
ScanCarriageReturn_NoLookahead(text, sc) ==
    make_token(text, [sc EXCEPT !.line = @ + 1], "NewLine")

\* Some('\r') arm: a following line feed belongs to the same newline.
ScanCarriageReturn(text, sc) ==
    LET c == peek(text, sc)
        sc1 == IF c.fault THEN [sc EXCEPT !.fault = TRUE]
               ELSE IF c.some /\ c.v = "LF" THEN ScannerAdvance(text, sc)
               ELSE sc
    IN make_token(text, [sc1 EXCEPT !.line = @ + 1], "NewLine")

scan_token(text, sc) ==
    LET sc0 == [sc EXCEPT !.start = sc.current]
    IN IF ScannerIsAtEnd(text, sc0) THEN make_token(text, sc0, "Eof")
       ELSE LET character == peek(text, sc0)
                sc1 == ScannerAdvance(text, sc0)
            IN IF character.some /\ character.v = "LF"
               THEN make_token(text, [sc1 EXCEPT !.line = @ + 1], "NewLine")
               ELSE IF character.some /\ character.v = "CR"
               THEN ScanCarriageReturn(text, sc1)
               ELSE make_token(text, ScanString(text, sc1), "String")

\* What the other specifications drive stays idle.
RuntimeIdle ==
    /\ host = NoValues
    /\ storage = NoValues
    /\ overflow_checks = TRUE
    /\ chunk = EmptyChunk
    /\ rt = RuntimeInit
    /\ vmres = NoCall
    /\ trace = <<>>
    /\ calls = <<>>
    /\ last_ok = "None"
    /\ sel_since = FALSE
    /\ threads = <<>>
    /\ resolver = ResolverNew
    /\ todo = <<>>

idle == <<host, storage, overflow_checks, chunk, rt, vmres, trace, calls, last_ok,
          sel_since, threads, resolver, todo>>

(***************************************************************************)
(* ScannerSpec: a caller asks one Scanner for token after token.           *)
(***************************************************************************)
Texts == UNION {[1..n -> Chars] : n \in 0..MaxChars}

ScannerInit ==
    /\ source \in Texts
    /\ scanner = ScannerNew
    /\ phase = "scanning"
    /\ op = Call("none", 0)
    /\ res = NoCall
    /\ pre = ScannerNew
    /\ hist = <<>>
    /\ diag = <<>>
    /\ RuntimeIdle

\* Tokens of kind k returned so far.
Returned(k) == Cardinality({j \in 1..Len(hist) : hist[j].kind = k})

\* scan_token is called; calls go on until Eof has been returned twice.
ScanToken ==
    /\ phase = "scanning"
    /\ ~scanner.fault
    /\ Returned("Eof") < 2
    /\ \E out \in {scan_token(source, scanner)} :
          /\ scanner' = out.sc
          /\ res' = out.token
          /\ hist' = Append(hist, out.token)
    /\ op' = Call("scan_token", 0)
    /\ pre' = scanner
    /\ UNCHANGED <<source, phase, diag>>
    /\ UNCHANGED idle

ScannerNext == ScanToken

ScannerSpec == ScannerInit /\ [][ScannerNext]_vars

\* Line terminators among the first n characters of text: every line feed,
\* and every carriage return that no line feed follows.
Terminators(text, n) ==
    Cardinality({i \in 1..n :
        \/ text[i] = "LF"
        \/ text[i] = "CR" /\ ~(i < Len(text) /\ text[i + 1] = "LF")})

\* C25: each line terminator (LF, CR LF or a lone CR) gives exactly one
\* NewLine token and adds exactly one to the line counter: after any number
\* of scan_token calls line - 1 is the number of NewLine tokens returned,
\* which is the number of terminators in the text scanned so far, and CR LF
\* is never returned as two NewLine tokens.
C25_OneNewLinePerTerminator ==
    /\ ~scanner.fault
    /\ scanner.line - 1 = Returned("NewLine")
    /\ Returned("NewLine") = Terminators(source, CharsBefore(source, scanner.current))
    /\ scanner.line = pre.line + (IF hist # <<>> /\ res.kind = "NewLine" THEN 1 ELSE 0)
    /\ \A j \in 1..Len(hist) :
          /\ hist[j].kind = "NewLine" <=>
                hist[j].lexeme \in {<<"LF">>, <<"CR", "LF">>, <<"CR">>}
          /\ (j < Len(hist) /\ hist[j].lexeme = <<"CR">>) =>
                hist[j + 1].lexeme # <<"LF">>

C25_Witness ==
    /\ scanner.line = 4
    /\ \E j \in 1..Len(hist) : hist[j].lexeme = <<"CR", "LF">>
    /\ \E j \in 1..Len(hist) : hist[j].lexeme = <<"CR">>
    /\ \E j \in 1..Len(hist) : hist[j].lexeme = <<"LF">>

\* Byte offsets of text that lie on a character boundary.
Boundaries(text) == {ByteOffset(text, n) : n \in 0..Len(text)}

\* C26: the spans of the tokens returned by successive scan_token calls have
\* start <= end, lie on character boundaries and tile the text: the first
\* starts at 0, each starts where the one before ended, every token but Eof
\* is non-empty (so at most len(text) tokens come before Eof), and Eof has
\* the span [len, len] and is returned again by every later call.
C26_SpansTile ==
    /\ ~scanner.fault
    /\ \A j \in 1..Len(hist) :
          LET t == hist[j]
          IN /\ t.span.start <= t.span.end
             /\ {t.span.start, t.span.end} \subseteq Boundaries(source)
             /\ t.span.start = IF j = 1 THEN 0 ELSE hist[j - 1].span.end
             /\ t.kind \in {"String", "NewLine", "Eof"}
             /\ t.kind # "Eof" => t.span.start < t.span.end
             /\ t.kind = "Eof" => t.span = Span(ByteLen(source), ByteLen(source))
             /\ (j > 1 /\ hist[j - 1].kind = "Eof") => t = hist[j - 1]
    /\ Len(hist) - Returned("Eof") <= ByteLen(source)

C26_Witness ==
    /\ Returned("Eof") = 2
    /\ Len(hist) = 5
    /\ \E j \in 1..Len(hist) : "euro" \in {hist[j].lexeme[k] : k \in 1..Len(hist[j].lexeme)}
    /\ \E j \in 1..Len(hist) : hist[j].kind = "NewLine"
    /\ hist[Len(hist)] = hist[Len(hist) - 1]

(***************************************************************************)
(* Diagnostics (diagnostic/fuzzy.rs, convert.rs, types.rs) and the         *)
(* conversions of errors into diagnostics.                                 *)
(*                                                                         *)
(* A String is the sequence of its chars.  A similarity score is an f64    *)
(* in [0, 1]; the model keeps it as an exact fraction [n, d] in lowest     *)
(* terms and compares two scores by cross-multiplication.                  *)
(***************************************************************************)
Spelling(name) ==
    CASE name = "player_name" -> <<"p", "l", "a", "y", "e", "r", "_", "n", "a", "m", "e">>
      [] name = "playr_name" -> <<"p", "l", "a", "y", "r", "_", "n", "a", "m", "e">>
      [] name = "hp" -> <<"h", "p">>
      [] name = "hq" -> <<"h", "q">>
      [] name = "hr" -> <<"h", "r">>
      [] name = "ph" -> <<"p", "h">>
      [] name = "" -> <<>>
      [] OTHER -> <<name>>

RECURSIVE Gcd(_, _)
Gcd(a, b) == IF b = 0 THEN a ELSE Gcd(b, a % b)

Score(n, d) == LET g == Gcd(n, d) IN [n |-> n \div g, d |-> d \div g]

\* f64 comparison s >= t.
ScoreGeq(s, t) == s.n * t.d >= t.n * s.d

ScoreGt(s, t) == s.n * t.d > t.n * s.d

Min2(a, b) == IF a < b THEN a ELSE b

Max2(a, b) == IF a > b THEN a ELSE b

\* strsim's matching pass of jaro: each char of a, in order, is matched with
\* the first unflagged equal char of b inside the search window.
RECURSIVE JaroFlags(_, _, _, _, _)
JaroFlags(a, b, i, af, bf) ==
    IF i > Len(a) THEN [a |-> af, b |-> bf]
    ELSE LET search_range == Max2(Max2(Len(a), Len(b)) \div 2 - 1, 0)
             i0 == i - 1
             min_bound == IF i0 > search_range THEN i0 - search_range ELSE 0
             max_bound == Min2(Len(b), i0 + search_range + 1)
             J == {j \in (min_bound + 1)..max_bound : a[i] = b[j] /\ j \notin bf}
         IN IF J = {}
            THEN JaroFlags(a, b, i + 1, af, bf)
            ELSE LET j == CHOOSE m \in J : \A k \in J : m <= k
                 IN JaroFlags(a, b, i + 1, af \cup {i}, bf \cup {j})

\* The flagged chars of s, in order.
RECURSIVE Flagged(_, _, _)
Flagged(s, flags, i) ==
    IF i > Len(s) THEN <<>>
    ELSE (IF i \in flags THEN <<s[i]>> ELSE <<>>) \o Flagged(s, flags, i + 1)

\* strsim::jaro.
jaro(a, b) ==
    IF Len(a) = 0 /\ Len(b) = 0 THEN Score(1, 1)
    ELSE IF Len(a) = 0 \/ Len(b) = 0 THEN Score(0, 1)
    ELSE CHOOSE out \in
        {LET ma == Flagged(a, f.a, 1)
             mb == Flagged(b, f.b, 1)
             m == Len(ma)
             t == Cardinality({k \in 1..m : ma[k] # mb[k]}) \div 2
         IN IF m = 0 THEN Score(0, 1)
            ELSE Score(m * m * Len(b) + m * m * Len(a) + (m - t) * Len(a) * Len(b),
                       3 * Len(a) * Len(b) * m) :
            f \in {JaroFlags(a, b, 1, {}, {})}} : TRUE

\* Length of the common prefix of a and b, looking at no more than cap chars.
CommonPrefix(a, b, cap) ==
    LET lim == Min2(cap, Min2(Len(a), Len(b)))
        D == {k \in 1..lim : a[k] # b[k]}
    IN IF D = {} THEN lim ELSE (CHOOSE m \in D : \A k \in D : m <= k) - 1

\* sim + 0.1 * prefix_length * (1.0 - sim), not above 1.0.
Boost(sim, prefix_length) ==
    LET n == 10 * sim.n + prefix_length * (sim.d - sim.n)
        d == 10 * sim.d
    IN IF n <= d THEN Score(n, d) ELSE Score(1, 1)

\* strsim::jaro_winkler.  The crate version is whatever the build resolves:
\* releases up to 0.10 boost every pair by its whole common prefix, later
\* ones boost only a pair whose jaro similarity is above 0.7, by at most
\* four chars of prefix.
jaro_winkler(release, query, c) ==
    CHOOSE out \in
        {IF release = "0.10"
         THEN Boost(sim, CommonPrefix(Spelling(query), Spelling(c), Len(Spelling(query))))
         ELSE IF ScoreGt(sim, Score(7, 10))
              THEN Boost(sim, CommonPrefix(Spelling(query), Spelling(c), 4))
              ELSE sim :
            sim \in {jaro(Spelling(query), Spelling(c))}} : TRUE

\* JaroWinklerMatcher { threshold }; release is the strsim linked in.
JaroWinklerMatcher(threshold, release) == [threshold |-> threshold, release |-> release]

default_threshold(release) == JaroWinklerMatcher(Score(7, 10), release)

\* candidates.iter().map(|c| (c, jaro_winkler(query, c)))
Scored(matcher, query, candidates) ==
    [i \in 1..Len(candidates) |->
        [name |-> candidates[i],
         score |-> jaro_winkler(matcher.release, query, candidates[i])]]

\* The filter with > in place of >=.
Kept_Strict(matcher, query, candidates) ==
    SelectSeq(Scored(matcher, query, candidates),
              LAMBDA m : ScoreGt(m.score, matcher.threshold))

\* .filter(|(_, score)| *score >= self.threshold)
Kept(matcher, query, candidates) ==
    SelectSeq(Scored(matcher, query, candidates),
              LAMBDA m : ScoreGeq(m.score, matcher.threshold))

NoMatch == [some |-> FALSE, name |-> "", score |-> Score(0, 1)]

SomeMatch(m) == [some |-> TRUE, name |-> m.name, score |-> m.score]

\* Iterator::max_by: the last of the greatest elements.
MaxBy(ms) ==
    IF ms = <<>> THEN NoMatch
    ELSE LET G == {i \in 1..Len(ms) : \A k \in 1..Len(ms) : ScoreGeq(ms[i].score, ms[k].score)}
         IN SomeMatch(ms[CHOOSE i \in G : \A k \in G : k <= i])

\* Matcher::best_match
best_match(matcher, query, candidates) ==
    CHOOSE out \in {MaxBy(ms) : ms \in {Kept(matcher, query, candidates)}} : TRUE

\* slice::sort_by with b.1.partial_cmp(&a.1): stable, descending by score.
RECURSIVE SortDescending(_)
SortDescending(ms) ==
    IF ms = <<>> THEN <<>>
    ELSE LET G == {i \in 1..Len(ms) : \A k \in 1..Len(ms) : ScoreGeq(ms[i].score, ms[k].score)}
             i == CHOOSE m \in G : \A k \in G : m <= k
         IN <<ms[i]>> \o SortDescending(SubSeq(ms, 1, i - 1) \o SubSeq(ms, i + 1, Len(ms)))

\* Matcher::find_similar
find_similar(matcher, query, candidates) ==
    CHOOSE out \in {SortDescending(ms) : ms \in {Kept(matcher, query, candidates)}} : TRUE

\* DiagnosticContext::new
DiagnosticContext(known, matcher) == [known_variables |-> known, matcher |-> matcher]

\* find_similar_variable taking the first candidate that passes the filter.
find_similar_variable_First(ctx, name) ==
    CHOOSE out \in
        {IF ms = <<>> THEN [some |-> FALSE, name |-> ""]
         ELSE [some |-> TRUE, name |-> ms[1].name] :
            ms \in {Kept(ctx.matcher, name, ctx.known_variables)}} : TRUE

\* DiagnosticContext::find_similar_variable
find_similar_variable(ctx, name) ==
    CHOOSE out \in
        {[some |-> m.some, name |-> m.name] :
            m \in {best_match(ctx.matcher, name, ctx.known_variables)}} : TRUE

(***************************************************************************)
(* Diagnostic, Label, Suggestion (types.rs).  A formatted message is the   *)
(* sequence of its pieces.                                                 *)
(***************************************************************************)
Label(span, message, style) == [span |-> span, message |-> message, style |-> style]

Suggestion(message, span, replacement) ==
    [message |-> message, span |-> span, replacement |-> replacement]

Diagnostic(severity, message, labels, notes, suggestions) ==
    [severity |-> severity, message |-> message, labels |-> labels,
     notes |-> notes, suggestions |-> suggestions]

\* Diagnostic::error
DiagnosticError(message, span, label) ==
    Diagnostic("Error", message, <<Label(span, label, "Primary")>>, <<>>, <<>>)

with_secondary(d, span, message) ==
    [d EXCEPT !.labels = Append(@, Label(span, message, "Secondary"))]

with_note(d, note) == [d EXCEPT !.notes = Append(@, note)]

with_suggestion(d, message, span, replacement) ==
    [d EXCEPT !.suggestions = Append(@, Suggestion(message, span, replacement))]

\* impl IntoDiagnostic for SemanticError
SemanticIntoDiagnostic(err, ctx) ==
    CASE err.kind = "UndefinedVariable" ->
            CHOOSE out \in
                {IF similar.some
                 THEN with_suggestion(
                        DiagnosticError(<<"undefined variable '", err.name, "'">>,
                                        err.span, <<"not defined in this scope">>),
                        <<"did you mean '", similar.name, "'?">>, err.span, similar.name)
                 ELSE DiagnosticError(<<"undefined variable '", err.name, "'">>,
                                      err.span, <<"not defined in this scope">>) :
                    similar \in {find_similar_variable(ctx, err.name)}} : TRUE
      [] err.kind = "Shadowing" ->
            with_note(
                with_secondary(
                    DiagnosticError(<<"variable '", err.name, "' shadows previous declaration">>,
                                    err.span, <<"shadows previous declaration">>),
                    err.original, <<"previously declared here">>),
                "Bobbin does not allow shadowing to prevent confusion in dialogue scripts")
      [] err.kind = "AssignmentToExtern" ->
            with_note(
                with_note(
                    DiagnosticError(<<"cannot assign to extern variable '", err.name, "'">>,
                                    err.span, <<"extern variables are read-only">>),
                    "Extern variables are provided by the host game and cannot be modified by scripts"),
                "Use 'save' or 'temp' to declare a mutable variable instead")

\* impl IntoDiagnostic for RuntimeError: no labels, no suggestions.
RuntimeIntoDiagnostic(err) ==
    CASE err.kind = "NotAtChoice" ->
            Diagnostic("Error",
                <<"select_and_continue called but VM is not waiting for a choice">>,
                <<>>, <<"This is an API usage error - check your game logic">>, <<>>)
      [] err.kind = "InvalidChoiceIndex" ->
            Diagnostic("Error",
                <<"choice index ", NatStr(err.index), " out of bounds (only ",
                  NatStr(err.count), " choices available)">>,
                <<>>, <<"Check that the choice index is within the valid range">>, <<>>)
      [] err.kind = "MissingSaveVariable" ->
            Diagnostic("Error",
                <<"save variable '", err.name, "' not found in storage">>,
                <<>>,
                <<"This may indicate corrupted or cleared save data",
                  "Ensure the variable was declared with 'save' before use">>, <<>>)
      [] err.kind = "MissingExternVariable" ->
            Diagnostic("Error",
                <<"extern variable '", err.name, "' not found in host state">>,
                <<>>,
                <<"The host game must provide this variable before running the script",
                  "Check that your game's HostState implementation returns a value for this variable">>,
                <<>>)

\* A ParseError of the parser's error list, and its conversion: one Error
\* diagnostic at the error's span.
ParseError(i) == [kind |-> "ParseError", name |-> "", span |-> <<i>>, original |-> <<>>]

ParseErrors(src) == [i \in 1..src.parse_errors |-> ParseError(i)]

ParseIntoDiagnostic(err, ctx) ==
    DiagnosticError(<<"parse error">>, err.span, <<"here">>)

\* errors.into_iter().map(|e| e.into_diagnostic(&ctx)).collect()
SemanticDiagnostics(errors, ctx) ==
    [i \in 1..Len(errors) |-> SemanticIntoDiagnostic(errors[i], ctx)]

ParseDiagnostics(errors, ctx) ==
    [i \in 1..Len(errors) |-> ParseIntoDiagnostic(errors[i], ctx)]

(***************************************************************************)
(* BobbinError (lib.rs) and its two conversions; validate (syntax/lib.rs). *)
(***************************************************************************)
BobbinError(kind, errors, known, err) ==
    [kind |-> kind, errors |-> errors, known_variables |-> known, err |-> err]

BobbinParse(errors) == BobbinError("Parse", errors, <<>>, NoCall)

BobbinSemantic(errors, known) == BobbinError("Semantic", errors, known, NoCall)

BobbinCompile == BobbinError("Compile", <<>>, <<>>, NoCall)

BobbinRuntime(err) == BobbinError("Runtime", <<>>, <<>>, err)

\* The value a consuming call leaves behind: nothing the caller can use.
Moved == BobbinError("Moved", <<>>, <<>>, NoCall)

\* BobbinError::into_diagnostics(self)
into_diagnostics(e, release) ==
    CHOOSE made \in
        {[e |-> Moved,
          out |-> CASE e.kind = "Parse" ->
                        ParseDiagnostics(e.errors, DiagnosticContext(<<>>, matcher))
                    [] e.kind = "Semantic" ->
                        SemanticDiagnostics(e.errors,
                            DiagnosticContext(e.known_variables, matcher))
                    [] e.kind = "Compile" -> <<>>
                    [] e.kind = "Runtime" -> <<RuntimeIntoDiagnostic(e.err)>>] :
            matcher \in {default_threshold(release)}} : TRUE

\* to_diagnostics converting semantic errors without the known names.
to_diagnostics_NoKnownVariables(e, release) ==
    [e |-> e,
     out |-> CASE e.kind = "Parse" ->
                    ParseDiagnostics(e.errors,
                        DiagnosticContext(<<>>, default_threshold(release)))
               [] e.kind = "Semantic" ->
                    SemanticDiagnostics(e.errors,
                        DiagnosticContext(<<>>, default_threshold(release)))
               [] e.kind = "Compile" -> <<>>
               [] e.kind = "Runtime" -> <<RuntimeIntoDiagnostic(e.err)>>]

\* BobbinError::to_diagnostics(&self): each error is cloned and converted.
to_diagnostics(e, release) ==
    CHOOSE made \in
        {[e |-> e,
          out |-> CASE e.kind = "Parse" ->
                        ParseDiagnostics(e.errors, DiagnosticContext(<<>>, matcher))
                    [] e.kind = "Semantic" ->
                        SemanticDiagnostics(e.errors,
                            DiagnosticContext(e.known_variables, matcher))
                    [] e.kind = "Compile" -> <<>>
                    [] e.kind = "Runtime" -> <<RuntimeIntoDiagnostic(e.err)>>] :
            matcher \in {default_threshold(release)}} : TRUE

\* What validate returns, with the passes it ran.
Validated(out, passes) == [out |-> out, passes |-> passes]

\* validate resolving the recovered statements after a failed parse as well.
validate_ResolvesAnyway(src, release) ==
    {Validated(
        ParseDiagnostics(ParseErrors(src), DiagnosticContext(<<>>, default_threshold(release)))
            \o SemanticDiagnostics(r.errors,
                    DiagnosticContext(known, default_threshold(release))),
        <<"scan", "parse", "resolve">>) :
        r \in {ResolveStmts(ResolverNew, StmtsWithIds(src.statements, <<>>))},
        known \in known_variables(ResolveStmts(ResolverNew, StmtsWithIds(src.statements, <<>>)))}

\* validate: the outcomes it can return for a source text (the order of the
\* known names is the maps' iteration order).
validate(src, release) ==
    IF ~Parse(src).ok
    THEN {Validated(
            ParseDiagnostics(ParseErrors(src),
                DiagnosticContext(<<>>, default_threshold(release))),
            <<"scan", "parse">>)}
    ELSE UNION
        {IF r.errors = <<>>
         THEN {Validated(<<>>, <<"scan", "parse", "resolve">>)}
         ELSE {Validated(
                  SemanticDiagnostics(r.errors,
                      DiagnosticContext(known, default_threshold(release))),
                  <<"scan", "parse", "resolve">>) : known \in known_variables(r)} :
            r \in {ResolveStmts(ResolverNew, Parse(src).statements)}}

(***************************************************************************)
(* DiagSpec: a caller of the diagnostic subsystem.  A session either       *)
(* queries a matcher and converts one semantic error with it, or holds a   *)
(* BobbinError and converts it by reference and by value, or validates a   *)
(* source text.                                                            *)
(***************************************************************************)
MaxCands == 2
MaxConversions == 2

DiagNames == {"player_name", "playr_name", "hp", "hq", "hr", "ph"}

Queries == {"playr_name", "hq", "ph"}

CandidateLists == UNION {[1..n -> DiagNames] : n \in 0..MaxCands}

Thresholds == {Score(0, 1), Score(2, 3), Score(7, 10), Score(4, 5), Score(1, 1)}

Releases == {"0.10", "0.11"}

SemanticErrors ==
    {UndefinedVariable(q, <<2>>) : q \in {"playr_name", "hq"}}
        \cup {Shadowing("hp", <<2>>, <<1>>), AssignmentToExtern("hq", <<3>>)}

RuntimeErrors ==
    {NotAtChoice, InvalidChoiceIndex(2, 1), MissingSaveVariable("hp"),
     MissingExternVariable("hq")}

BobbinErrors ==
    {BobbinParse(ParseErrors([parse_errors |-> n])) : n \in 1..2}
        \cup {BobbinSemantic(errs, known) :
                errs \in UNION {[1..n -> SemanticErrors] : n \in 1..2},
                known \in CandidateLists}
        \cup {BobbinCompile}
        \cup {BobbinRuntime(err) : err \in RuntimeErrors}

ValidateAlphabet ==
    {TempDecl("player_name", Num(1)), TempDecl("hp", Num(1)), SaveDecl("hr", Num(0)),
     ExternDecl("x"),
     StmtLine(<<VarRef("playr_name")>>), StmtLine(<<Literal("A"), VarRef("hq")>>),
     Assignment("x", Num(7))}

ValidateSources ==
    {[parse_errors |-> n, statements |-> l] :
        n \in 0..2, l \in UNION {[1..k -> ValidateAlphabet] : k \in 0..MaxDecls}}

NoSource == [parse_errors |-> 0, statements |-> <<>>]

Session(kind, matcher, query, candidates, e, release) ==
    [session |-> kind, matcher |-> matcher, query |-> query,
     candidates |-> candidates, e |-> e, release |-> release]

DiagCall(name, arg) == [name |-> name, index |-> 0, arg |-> arg]

DiagInit ==
    /\ \/ /\ source = NoSource
          /\ \E t \in Thresholds, rel \in Releases, q \in Queries, cs \in CandidateLists :
                diag = Session("match", JaroWinklerMatcher(t, rel), q, cs, Moved, rel)
       \/ /\ source = NoSource
          /\ \E rel \in Releases, e \in BobbinErrors :
                diag = Session("errors", default_threshold(rel), "", <<>>, e, rel)
       \/ /\ source \in ValidateSources
          /\ \E rel \in Releases :
                diag = Session("validate", default_threshold(rel), "", <<>>, Moved, rel)
    /\ scanner = <<>>
    /\ phase = "diagnosing"
    /\ op = DiagCall("none", <<>>)
    /\ res = NoCall
    /\ pre = Moved
    /\ hist = <<>>
    /\ RuntimeIdle

DiagApply(name, arg, out, e) ==
    /\ op' = DiagCall(name, arg)
    /\ res' = out
    /\ pre' = diag.e
    /\ diag' = [diag EXCEPT !.e = e]
    /\ hist' = IF diag.session = "errors"
               THEN Append(hist, [call |-> name, out |-> out])
               ELSE hist
    /\ UNCHANGED <<source, phase, scanner>>
    /\ UNCHANGED idle

BestMatch ==
    /\ phase = "diagnosing" /\ diag.session = "match" /\ op.name = "none"
    /\ DiagApply("best_match", diag.query,
                 best_match(diag.matcher, diag.query, diag.candidates), diag.e)

FindSimilar ==
    /\ phase = "diagnosing" /\ diag.session = "match" /\ op.name = "none"
    /\ DiagApply("find_similar", diag.query,
                 find_similar(diag.matcher, diag.query, diag.candidates), diag.e)

IntoDiagnostic ==
    /\ phase = "diagnosing" /\ diag.session = "match" /\ op.name = "none"
    /\ \E err \in {UndefinedVariable(diag.query, <<2>>),
                   Shadowing(diag.query, <<2>>, <<1>>),
                   AssignmentToExtern(diag.query, <<2>>)} :
          DiagApply("into_diagnostic", err,
                    SemanticIntoDiagnostic(err,
                        DiagnosticContext(diag.candidates, diag.matcher)),
                    diag.e)

ToDiagnostics ==
    /\ phase = "diagnosing" /\ diag.session = "errors"
    /\ diag.e # Moved /\ Len(hist) < MaxConversions
    /\ \E made \in {to_diagnostics(diag.e, diag.release)} :
          DiagApply("to_diagnostics", diag.e, made.out, made.e)

IntoDiagnostics ==
    /\ phase = "diagnosing" /\ diag.session = "errors"
    /\ diag.e # Moved /\ Len(hist) < MaxConversions
    /\ \E made \in {into_diagnostics(diag.e, diag.release)} :
          DiagApply("into_diagnostics", diag.e, made.out, made.e)

Validate ==
    /\ phase = "diagnosing" /\ diag.session = "validate" /\ op.name = "none"
    /\ \E made \in validate(source, diag.release) :
          DiagApply("validate", <<>>, made, diag.e)

DiagNext ==
    \/ BestMatch
    \/ FindSimilar
    \/ IntoDiagnostic
    \/ ToDiagnostics
    \/ IntoDiagnostics
    \/ Validate

DiagSpec == DiagInit /\ [][DiagNext]_vars

\* The indices of the candidates of the session whose similarity to name is
\* at least t, computed from the scores alone.
Meets(name, t) ==
    {i \in 1..Len(diag.candidates) :
        ScoreGeq(jaro_winkler(diag.matcher.release, name, diag.candidates[i]), t)}

ScoreOf(name, i) == jaro_winkler(diag.matcher.release, name, diag.candidates[i])

\* C21: converting an UndefinedVariable error gives one Error diagnostic
\* with a single primary label at the reference's span.  When some known
\* name scores at least the threshold it carries exactly one suggestion, at
\* the reference's span, whose replacement is a known name of the greatest
\* score (the matcher's best match); when none does it carries no
\* suggestion.  With the default matcher, 'playr_name' against the single
\* known name 'player_name' is replaced by "player_name".
C21_UndefinedVariableSuggestion ==
    (phase = "diagnosing" /\ op.name = "into_diagnostic"
        /\ op.arg.kind = "UndefinedVariable") =>
        LET meets == Meets(op.arg.name, diag.matcher.threshold)
        IN /\ res.severity = "Error"
           /\ Len(res.labels) = 1
           /\ res.labels[1].style = "Primary"
           /\ res.labels[1].span = op.arg.span
           /\ meets = {} => res.suggestions = <<>>
           /\ meets # {} =>
                /\ Len(res.suggestions) = 1
                /\ res.suggestions[1].span = op.arg.span
                /\ res.suggestions[1].replacement =
                      best_match(diag.matcher, op.arg.name, diag.candidates).name
                /\ \E i \in meets :
                      /\ diag.candidates[i] = res.suggestions[1].replacement
                      /\ \A k \in meets :
                            ScoreGeq(ScoreOf(op.arg.name, i), ScoreOf(op.arg.name, k))
           /\ (/\ op.arg.name = "playr_name"
               /\ diag.candidates = <<"player_name">>
               /\ diag.matcher.threshold = Score(7, 10)) =>
                    /\ Len(res.suggestions) = 1
                    /\ res.suggestions[1].replacement = "player_name"

C21_Witness ==
    /\ phase = "diagnosing" /\ op.name = "into_diagnostic"
    /\ op.arg = UndefinedVariable("hq", <<2>>)
    /\ diag.candidates = <<"hp", "hq">>
    /\ diag.matcher = default_threshold("0.10")
    /\ Len(res.suggestions) = 1
    /\ res.suggestions[1].replacement = "hq"
    /\ res.suggestions[1].span = <<2>>

\* C22: best_match and find_similar keep a candidate exactly when its score
\* is at least the matcher's threshold.  find_similar returns the
\* candidates that meet the threshold, each once per occurrence and none
\* else; best_match returns one of them when there is one and nothing when
\* there is none; a score equal to the threshold is kept; under any higher
\* threshold the names returned are among those returned now.
C22_ThresholdIsInclusive ==
    /\ (phase = "diagnosing" /\ op.name = "find_similar") =>
          LET t == diag.matcher.threshold
              meets == Meets(op.arg, t)
          IN /\ Len(res) = Cardinality(meets)
             /\ \A k \in 1..Len(res) : ScoreGeq(res[k].score, t)
             /\ \A i \in 1..Len(diag.candidates) :
                   (i \in meets) <=>
                       \E k \in 1..Len(res) :
                           /\ res[k].name = diag.candidates[i]
                           /\ res[k].score = ScoreOf(op.arg, i)
             /\ \A t2 \in Thresholds :
                   ScoreGeq(t2, t) =>
                       \A m \in {find_similar(JaroWinklerMatcher(t2, diag.matcher.release),
                                              op.arg, diag.candidates)} :
                           \A k \in 1..Len(m) : \E j \in 1..Len(res) : res[j] = m[k]
    /\ (phase = "diagnosing" /\ op.name = "best_match") =>
          LET t == diag.matcher.threshold
              meets == Meets(op.arg, t)
          IN /\ res.some <=> meets # {}
             /\ res.some =>
                   /\ ScoreGeq(res.score, t)
                   /\ \E i \in meets :
                         res.name = diag.candidates[i] /\ res.score = ScoreOf(op.arg, i)
             /\ \A t2 \in Thresholds :
                   (ScoreGeq(t2, t) /\ ~res.some) =>
                       ~best_match(JaroWinklerMatcher(t2, diag.matcher.release),
                                   op.arg, diag.candidates).some

C22_Witness ==
    /\ phase = "diagnosing" /\ op.name = "find_similar"
    /\ Len(diag.candidates) = 2
    /\ ScoreOf(op.arg, 1) = diag.matcher.threshold
    /\ ~ScoreGeq(ScoreOf(op.arg, 2), diag.matcher.threshold)
    /\ diag.matcher.threshold = Score(7, 10)
    /\ Len(res) = 1
    /\ res[1].name = diag.candidates[1]

\* C23: validate returns the empty list exactly when parsing and resolution
\* both succeed.  After a failed parse it returns one diagnostic per parse
\* error, at that error's span, and the resolver has not run.  After a
\* successful parse and a failed resolution it returns one diagnostic per
\* semantic error, in the order of the errors.  No pass after resolution
\* runs and no chunk or runtime is made.
C23_ValidateStopsAtResolve ==
    (phase = "diagnosing" /\ op.name = "validate") =>
        /\ (res.out = <<>>) <=> (Parse(source).ok /\ analyze(Parse(source)).ok)
        /\ ~Parse(source).ok =>
              /\ Len(res.out) = source.parse_errors
              /\ res.passes = <<"scan", "parse">>
              /\ \A i \in 1..Len(res.out) :
                    /\ Len(res.out[i].labels) = 1
                    /\ res.out[i].labels[1].span = ParseErrors(source)[i].span
        /\ Parse(source).ok =>
              LET errors == analyze(Parse(source)).errors
              IN /\ Len(res.out) = Len(errors)
                 /\ res.passes = <<"scan", "parse", "resolve">>
                 /\ \A i \in 1..Len(res.out) :
                       /\ res.out[i].severity = "Error"
                       /\ res.out[i].labels[1].span = errors[i].span
                       /\ res.out[i].message[2] = errors[i].name
                       /\ (Len(res.out[i].labels) = 2) <=> (errors[i].kind = "Shadowing")
                       /\ (Len(res.out[i].notes) = 2) <=>
                              (errors[i].kind = "AssignmentToExtern")
        /\ \A i \in 1..Len(res.passes) : res.passes[i] \in {"scan", "parse", "resolve"}
        /\ chunk = EmptyChunk
        /\ rt = RuntimeInit

C23_Witness ==
    /\ phase = "diagnosing" /\ op.name = "validate"
    /\ source.parse_errors = 0
    /\ Len(source.statements) = 3
    /\ Len(res.out) = 2
    /\ Len(res.out[1].suggestions) = 1
    /\ res.out[1].suggestions[1].replacement = "player_name"
    /\ Len(res.out[2].labels) = 2

\* C24: for a BobbinError e, to_diagnostics(&e) and into_diagnostics(e)
\* return the same list: every call made on e returned what every other
\* did.  The list has one diagnostic per parse error, one per semantic
\* error converted with e's known_variables and the default matcher, exactly
\* one for a runtime error and none for a compile error.  After
\* to_diagnostics the caller still holds e as it was.
C24_BorrowingEqualsConsuming ==
    (phase = "diagnosing" /\ op.name \in {"to_diagnostics", "into_diagnostics"}) =>
        LET e == op.arg
        IN /\ \A i, j \in 1..Len(hist) : hist[i].out = hist[j].out
           /\ res = hist[Len(hist)].out
           /\ e.kind = "Parse" =>
                 /\ Len(res) = Len(e.errors)
                 /\ \A i \in 1..Len(res) : res[i].labels[1].span = e.errors[i].span
           /\ e.kind = "Semantic" =>
                 /\ Len(res) = Len(e.errors)
                 /\ \A i \in 1..Len(res) :
                       res[i] = SemanticIntoDiagnostic(e.errors[i],
                                    DiagnosticContext(e.known_variables,
                                                      default_threshold(diag.release)))
           /\ e.kind = "Runtime" =>
                 /\ Len(res) = 1
                 /\ res[1].labels = <<>>
                 /\ res[1].severity = "Error"
           /\ e.kind = "Compile" => res = <<>>
           /\ op.name = "to_diagnostics" => (diag.e = e /\ pre = e)

C24_Witness ==
    /\ phase = "diagnosing" /\ op.name = "into_diagnostics"
    /\ Len(hist) = 2
    /\ hist[1].call = "to_diagnostics"
    /\ hist[2].call = "into_diagnostics"
    /\ op.arg.kind = "Semantic"
    /\ op.arg.known_variables = <<"hp", "player_name">>
    /\ Len(res) = 2
    /\ Len(res[1].suggestions) = 1
    /\ hist[1].out = res
    /\ diag.e = Moved

\* C40: find_similar returns the candidates that meet the threshold in
\* non-increasing order of score, and best_match on the same matcher, query
\* and candidates is Some exactly when that list is non-empty and is then
\* its first element, also when several candidates share the highest score.
C40_BestIsFirstSimilar ==
    (phase = "diagnosing" /\ op.name = "find_similar") =>
        /\ \A i, j \in 1..Len(res) : i <= j => ScoreGeq(res[i].score, res[j].score)
        /\ \A best \in {best_match(diag.matcher, op.arg, diag.candidates)} :
              /\ best.some <=> res # <<>>
              /\ best.some => (best.name = res[1].name /\ best.score = res[1].score)

(***************************************************************************)
(* LineIndex (syntax/src/diagnostic/position.rs): byte offsets to          *)
(* 0-indexed line and column.  line_starts is a Vec, indexed from 0 in the *)
(* code and from 1 here.                                                   *)
(***************************************************************************)
SourcePosition(line, column) == [line |-> line, column |-> column]

RECURSIVE LineStarts(_, _, _)
LineStarts(text, breaks, k) ==
    IF k > Len(text) THEN <<>>
    ELSE (IF text[k] \in breaks THEN <<ByteOffset(text, k - 1) + 1>> ELSE <<>>)
            \o LineStarts(text, breaks, k + 1)

\* LineIndex::new with '\r' taken for a line break as well.
LineIndexNew_CarriageReturn(text) ==
    [line_starts |-> <<0>> \o LineStarts(text, {"LF", "CR"}, 1), source |-> text]

\* LineIndex::new
LineIndexNew(text) ==
    [line_starts |-> <<0>> \o LineStarts(text, {"LF"}, 1), source |-> text]

\* slice::binary_search on a strictly increasing Vec: Ok(position) when x is
\* an element, else Err(position where x would be inserted); 0-indexed.
binary_search(v, x) ==
    IF \E k \in 1..Len(v) : v[k] = x
    THEN [ok |-> TRUE, at |-> (CHOOSE k \in 1..Len(v) : v[k] = x) - 1]
    ELSE [ok |-> FALSE, at |-> Cardinality({k \in 1..Len(v) : v[k] < x})]

\* LineIndex::line_col
line_col(index, offset) ==
    CHOOSE out \in
        {SourcePosition(line, Max2(offset - index.line_starts[line + 1], 0)) :
            line \in {IF found.ok THEN found.at ELSE Max2(found.at - 1, 0) :
                        found \in {binary_search(index.line_starts, offset)}}} : TRUE

\* LineIndex::line_count
line_count(index) == Len(index.line_starts)

(***************************************************************************)
(* PositionSpec: an index is built for a source text and asked for         *)
(* positions.                                                              *)
(***************************************************************************)
PositionInit ==
    /\ source \in Texts
    /\ diag = LineIndexNew(source)
    /\ scanner = <<>>
    /\ phase = "indexed"
    /\ op = Call("new", 0)
    /\ res = NoCall
    /\ pre = <<>>
    /\ hist = <<>>
    /\ RuntimeIdle

LineCol ==
    /\ phase = "indexed"
    /\ \E offset \in 0..ByteLen(source) :
          /\ op' = Call("line_col", offset)
          /\ res' = line_col(diag, offset)
    /\ UNCHANGED <<source, diag, scanner, phase, pre, hist>>
    /\ UNCHANGED idle

LineCount ==
    /\ phase = "indexed"
    /\ op' = Call("line_count", 0)
    /\ res' = line_count(diag)
    /\ UNCHANGED <<source, diag, scanner, phase, pre, hist>>
    /\ UNCHANGED idle

PositionNext == LineCol \/ LineCount

PositionSpec == PositionInit /\ [][PositionNext]_vars

\* The '\n' characters of text that lie before byte offset off.
NewlinesBefore(text, off) ==
    {k \in 1..Len(text) : text[k] = "LF" /\ ByteOffset(text, k - 1) < off}

\* C39: for every byte offset up to the length of the source, line_col
\* returns as line the number of '\n' characters before the offset and as
\* column the offset minus the byte offset at which that line starts (just
\* after the last '\n' before the offset, or 0); line_count is one more than
\* the number of '\n' characters.  '\r' starts no line.
C39_LineColCountsNewlines ==
    /\ (phase = "indexed" /\ op.name = "line_col") =>
          LET before == NewlinesBefore(source, op.index)
              line_start ==
                  IF before = {} THEN 0
                  ELSE ByteOffset(source, CHOOSE k \in before : \A j \in before : j <= k)
          IN /\ res.line = Cardinality(before)
             /\ res.column = op.index - line_start
             /\ line_start + res.column = op.index
             /\ res.column >= 0
    /\ (phase = "indexed" /\ op.name = "line_count") =>
          res = 1 + Cardinality({k \in 1..Len(source) : source[k] = "LF"})

C39_Witness ==
    /\ phase = "indexed" /\ op = Call("line_col", 5)
    /\ source = <<"CR", "LF", "euro", "a">>
    /\ res = SourcePosition(1, 3)

(***************************************************************************)
(* Further properties of the Resolver, checked under ResolverSpec.         *)
(***************************************************************************)
\* The temps declared in the open scopes of r, by scope and name.
OpenTemps(r) ==
    {<<i, name>> \in (1..Len(r.scopes)) \X DeclaredNames(r) :
        name \in DOMAIN r.scopes[i].variables}

\* next_slot after visit j.
SlotAfter(j) == IF j < Len(hist) THEN hist[j + 1].next_slot ELSE resolver.next_slot

\* C33: at every point of the analysis the scope stack is non-empty,
\* next_slot is the number of temps declared in the open scopes, and the
\* slots of those temps are exactly 0 .. next_slot - 1, each held by one
\* temp.  Every pop_scope leaves next_slot at the value it had just before
\* the matching push_scope, and when the walk is over only scope 0 is left.
C33_SlotsAreDense ==
    /\ Len(resolver.scopes) >= 1
    /\ Cardinality(OpenTemps(resolver)) = resolver.next_slot
    /\ {resolver.scopes[t[1]].variables[t[2]].slot : t \in OpenTemps(resolver)}
          = 0..(resolver.next_slot - 1)
    /\ \A j \in 1..Len(hist) :
          hist[j].visit.ev = "pop_scope" =>
             \E k \in 1..(j - 1) :
                /\ hist[k].visit = [hist[j].visit EXCEPT !.ev = "push_scope"]
                /\ SlotAfter(j) = hist[k].next_slot
    /\ todo = <<>> => Len(resolver.scopes) = 1

C33_Witness ==
    /\ phase = "resolving" /\ op.ev = "pop_scope"
    /\ Len(pre.scopes) = 3
    /\ pre.next_slot = 3
    /\ resolver.next_slot = 2
    /\ Len(resolver.scopes) = 2

\* b is a prefix of c: block b is block c or encloses it.
IsPrefix(b, c) == Len(b) <= Len(c) /\ SubSeq(c, 1, Len(b)) = b

\* Visit v resolves an interpolation of a text (a Line's or a choice's).
TextReference(v) == v.ev = "resolve_reference" /\ ~v.for_write

\* The node that owns the text of a text reference: a Line statement (an id
\* of odd length) or a choice (its ChoiceSet's id and the choice's number).
TextOwner(v) == SubSeq(v.id, 1, Len(v.id) - 2)

\* The block in whose scope visit v is made: that of its statement; a
\* choice's display text belongs to the ChoiceSet statement.
ScopeBlock(v) ==
    IF ~TextReference(v) THEN Block(v.id)
    ELSE IF Len(TextOwner(v)) % 2 = 1 THEN Block(TextOwner(v))
    ELSE Block(Block(TextOwner(v)))

\* The earlier visits that declared, in a block enclosing visit j, a temp of
\* the name visit j refers to.
VisibleTemps(j) ==
    {k \in 1..(j - 1) :
        /\ DeclaredTemp(k)
        /\ hist[k].visit.name = hist[j].visit.name
        /\ IsPrefix(Block(hist[k].visit.id), ScopeBlock(hist[j].visit))}

\* An earlier visit declared the name of visit j with ev, anywhere.
DeclaredBefore(j, ev) ==
    \E k \in 1..(j - 1) :
        /\ hist[k].visit.ev = ev /\ ~hist[k].failed
        /\ hist[k].visit.name = hist[j].visit.name

\* C32: a reference (an interpolation or an assignment target) resolves to
\* the declaration of its name that precedes it and is still visible: the
\* temp declared in the innermost enclosing block, else the save variable,
\* else the extern variable, where a save or extern declared earlier in any
\* block counts.  When there is none of these (the name is declared only
\* later, or only as a temp of a block that does not enclose the reference)
\* the reference adds UndefinedVariable with its name and span and is bound
\* nowhere.  (A write to an extern is rejected instead of bound.)
C32_ReferenceResolution ==
    \A j \in 1..Len(hist) :
        hist[j].visit.ev = "resolve_reference" =>
            LET v == hist[j].visit
                temps == VisibleTemps(j)
            IN IF temps # {}
               THEN /\ ~hist[j].failed
                    /\ MapsOf(resolver, v.id) = {"temp"}
                    /\ \E k \in temps :
                          /\ \A m \in temps :
                                Len(hist[m].visit.id) <= Len(hist[k].visit.id)
                          /\ resolver.bindings[v.id] = resolver.bindings[hist[k].visit.id]
               ELSE IF DeclaredBefore(j, "declare_save")
               THEN /\ ~hist[j].failed
                    /\ MapsOf(resolver, v.id) = {"save"}
                    /\ resolver.save_bindings[v.id] = v.name
               ELSE IF DeclaredBefore(j, "declare_extern")
               THEN IF v.for_write
                    THEN hist[j].failed /\ MapsOf(resolver, v.id) = {}
                    ELSE /\ ~hist[j].failed
                         /\ MapsOf(resolver, v.id) = {"extern"}
                         /\ resolver.extern_bindings[v.id] = v.name
               ELSE /\ hist[j].failed
                    /\ MapsOf(resolver, v.id) = {}
                    /\ \E e \in 1..Len(resolver.errors) :
                          resolver.errors[e] = UndefinedVariable(v.name, v.id)

C32_Witness ==
    /\ todo = <<>> /\ phase = "resolving"
    /\ \E j, k \in 1..Len(hist) :
          /\ k < j
          /\ hist[k].visit.ev = "declare_save" /\ ~hist[k].failed
          /\ Len(hist[k].visit.id) = 3
          /\ TextReference(hist[j].visit)
          /\ Len(hist[j].visit.id) = 3
          /\ hist[j].visit.name = hist[k].visit.name
          /\ ~hist[j].failed
          /\ resolver.save_bindings[hist[j].visit.id] = hist[k].visit.name
    /\ \E j \in 1..Len(hist) :
          /\ TextReference(hist[j].visit) /\ hist[j].failed
          /\ \E k \in 1..(j - 1) :
                DeclaredTemp(k) /\ hist[k].visit.name = hist[j].visit.name

\* Visit v belongs to the ChoiceSet with id set: it resolves an
\* interpolation of one of its choices' display texts.
ChoiceTextOf(v, set) ==
    /\ TextReference(v)
    /\ Len(v.id) = Len(set) + 3
    /\ IsPrefix(set, v.id)

\* C36: for a ChoiceSet the display texts of all its choices are resolved,
\* in the enclosing scope, before the nested block of any of its choices is
\* entered.  A temp declared in a choice's nested block is visible only
\* inside that block: whenever a reference finds its name among the temps of
\* the open scopes, a block enclosing the reference declared it; so a display
\* text of the set, a sibling choice's block and the statements after the
\* set do not see it, and a reference with no other declaration of the name
\* is undefined.
C36_ChoiceTextsBeforeBlocks ==
    /\ \A j \in 1..Len(hist) :
          hist[j].visit.ev = "push_scope" =>
             LET set == Block(hist[j].visit.id)
             IN /\ \A k \in (j + 1)..Len(hist) : ~ChoiceTextOf(hist[k].visit, set)
                /\ \A t \in 1..Len(todo) : ~ChoiceTextOf(todo[t], set)
    /\ \A j \in 1..Len(hist) :
          hist[j].visit.ev = "resolve_reference" =>
             /\ "temp" \in hist[j].classes => VisibleTemps(j) # {}
             /\ (hist[j].classes = {}) => hist[j].failed

C36_Witness ==
    /\ todo = <<>> /\ phase = "resolving"
    /\ \E d, t, b \in 1..Len(hist) :
          /\ DeclaredTemp(d) /\ Len(hist[d].visit.id) = 3
          /\ ChoiceTextOf(hist[t].visit, Block(Block(hist[d].visit.id)))
          /\ hist[t].visit.name = hist[d].visit.name
          /\ t < d /\ d < b
          /\ hist[t].failed
          /\ TextReference(hist[b].visit)
          /\ hist[b].visit.name = hist[d].visit.name
          /\ Block(Block(TextOwner(hist[b].visit))) = Block(Block(hist[d].visit.id))
          /\ Block(TextOwner(hist[b].visit)) # Block(hist[d].visit.id)
          /\ "temp" \notin hist[b].classes
          /\ hist[b].failed

\* The number of declarations, assignments and interpolated references of a
\* list of statements, nested blocks included.
RECURSIVE CountStmts(_)
RECURSIVE CountChoices(_)
CountParts(parts) == Cardinality({i \in 1..Len(parts) : parts[i].kind = "VarRef"})

CountChoices(choices) ==
    IF choices = <<>> THEN 0
    ELSE CountParts(Head(choices).parts) + CountStmts(Head(choices).nested)
            + CountChoices(Tail(choices))

CountStmts(stmts) ==
    IF stmts = <<>> THEN 0
    ELSE (CASE Head(stmts).kind = "Line" -> CountParts(Head(stmts).parts)
            [] Head(stmts).kind = "ChoiceSet" -> CountChoices(Head(stmts).choices)
            [] OTHER -> 1)
         + CountStmts(Tail(stmts))

\* Visit j must fail, given the namespaces that held its name before it: a
\* declaration of a name already declared, a read of an unknown name, a
\* write to a name that is no temp and no save.
MustFail(j) ==
    CASE hist[j].visit.ev \in Declarations -> hist[j].classes # {}
      [] hist[j].visit.ev = "resolve_reference" ->
            IF hist[j].visit.for_write
            THEN hist[j].classes \cap {"temp", "save"} = {}
            ELSE hist[j].classes = {}
      [] OTHER -> FALSE

Failing == {j \in 1..Len(hist) : MustFail(j)}

\* C34: the analysis goes on after an error.  At every point the error list
\* holds exactly one error for each visit so far that had to fail, in visit
\* order, with that visit's name and span; when the walk is over every
\* declaration, assignment and reference of the script, nested ones
\* included, has been visited once; and analyze returns Ok exactly when the
\* list is empty.
C34_AllErrorsCollected ==
    /\ \A F \in {Failing} :
          /\ Len(resolver.errors) = Cardinality(F)
          /\ \A j \in F :
                \A e \in {Cardinality({k \in F : k <= j})} :
                    /\ resolver.errors[e].span = hist[j].visit.id
                    /\ resolver.errors[e].name = hist[j].visit.name
    /\ \A j \in 1..Len(hist) : hist[j].failed <=> MustFail(j)
    /\ todo = <<>> =>
          /\ Cardinality({j \in 1..Len(hist) :
                hist[j].visit.ev \in Declarations \cup {"resolve_reference"}})
                = CountStmts(source.statements)
          /\ \A j, k \in 1..Len(hist) :
                (j # k /\ hist[j].visit.ev \in Declarations \cup {"resolve_reference"})
                    => hist[j].visit.id # hist[k].visit.id
    /\ phase = "analyzed" =>
          /\ res.errors = resolver.errors
          /\ res.ok <=> res.errors = <<>>

C34_Witness ==
    /\ phase = "analyzed" /\ ~res.ok
    /\ Len(res.errors) = 3
    /\ res.errors[1].kind = "UndefinedVariable"
    /\ res.errors[2].kind = "AssignmentToExtern"
    /\ Len(res.errors[2].span) = 3
    /\ res.errors[3].kind = "Shadowing"
    /\ res.errors[3].span[1] > res.errors[2].span[1]

\* The names the walk declared with ev, without error, in nodes of the given
\* id lengths.
NamesDeclared(ev, lengths) ==
    {hist[j].visit.name :
        j \in {k \in 1..Len(hist) :
                /\ hist[k].visit.ev = ev /\ ~hist[k].failed
                /\ Len(hist[k].visit.id) \in lengths}}

AnyDepth == 1..(2 * MaxDecls + 8)

\* C35: when analyze fails, the known-variable list it returns holds
\* exactly the temps declared at top level (scope 0) and every save and
\* extern name declared without error, at top level or in a block, each
\* once; the temps declared only inside choice blocks are absent, whatever
\* block the failing reference was in.  When analyze succeeds there is no
\* list.
C35_KnownVariables ==
    phase = "analyzed" =>
        IF res.ok THEN diag = <<>>
        ELSE /\ {diag[i] : i \in 1..Len(diag)} =
                    NamesDeclared("declare_temp", {1})
                        \cup NamesDeclared("declare_save", AnyDepth)
                        \cup NamesDeclared("declare_extern", AnyDepth)
             /\ \A i, j \in 1..Len(diag) : i # j => diag[i] # diag[j]
             /\ \A name \in NamesDeclared("declare_temp", AnyDepth \ {1}) :
                    (name \notin NamesDeclared("declare_temp", {1})
                        \cup NamesDeclared("declare_save", AnyDepth)
                        \cup NamesDeclared("declare_extern", AnyDepth))
                    => \A i \in 1..Len(diag) : diag[i] # name

C35_Witness ==
    /\ phase = "analyzed" /\ ~res.ok
    /\ diag = <<"x", "h">>
    /\ "y" \in NamesDeclared("declare_temp", {3})
    /\ \E e \in 1..Len(res.errors) :
          /\ res.errors[e] = UndefinedVariable("y", res.errors[e].span)
          /\ Len(res.errors[e].span) = 5


(***************************************************************************)
(* Further properties of the VM, checked under VMSpec.                     *)
(***************************************************************************)
\* The machine after the instructions trace[i], ..., trace[last - 1] of the
\* last call, started from m: the machine its last instruction found.
RECURSIVE RunUpTo(_, _)
RunUpTo(m, i) ==
    IF i >= Len(trace) THEN m
    ELSE CHOOSE out \in
            {RunUpTo(after, i + 1) :
                after \in {Exec(chunk, host, overflow_checks,
                                [m EXCEPT !.ip = trace[i] + 1], InstrAt(trace[i]))}} : TRUE

BeforeLast == RunUpTo(Machine(pre.rt.vm, pre.storage), 1)

\* C31: a ChoiceSet{count: n} executed on a stack of at least n values pops
\* exactly the top n, returns Choice(texts) with texts[i] the display text
\* of the i-th of them in push order, leaves the values below as they were
\* and leaves ip on the ChoiceSet, whose jump table has one target for each
\* text, so that index i stands for texts[i] and targets[i].
C31_ChoiceSetPopsItsTexts ==
    (phase = "vm" /\ vmres.kind = "Choice") =>
        \A before \in {BeforeLast} :
           LET at == trace[Len(trace)]
               n == InstrAt(at).arg
               below == Len(before.stack) - n
           IN /\ InstrAt(at).op = "ChoiceSet"
              /\ below >= 0
              /\ rt.vm.stack = SubSeq(before.stack, 1, below)
              /\ Len(vmres.choices) = n
              /\ \A i \in 1..n :
                    vmres.choices[i] = ToStringValue(before.stack[below + i])
              /\ rt.vm.ip = at
              /\ Len(InstrAt(at).targets) = n
              /\ \A i \in 0..(n - 1) :
                    ChoiceJump(Machine(rt.vm, storage), InstrAt(at).targets, i).ip
                       = InstrAt(at).targets[i + 1]

\* A step that pushed two different texts above a temporary and then
\* executed the ChoiceSet.
C31_Witness ==
    /\ phase = "vm"
    /\ op.name = "step"
    /\ vmres.kind = "Choice"
    /\ Len(trace) >= 3
    /\ Len(vmres.choices) = 2
    /\ vmres.choices[1] # vmres.choices[2]
    /\ rt.vm.stack # <<>>
    /\ Len(BeforeLast.stack) = Len(rt.vm.stack) + 2

(***************************************************************************)
(* Further properties of the Runtime, checked under Spec.                  *)
(***************************************************************************)

\* No SetStorage of name among the instructions trace[from..to].
NoSetStorage(name, from, to) ==
    \A j \in from..to :
       ~(InstrAt(trace[j]).op = "SetStorage" /\ InstrAt(trace[j]).name = name)

\* C37: the VM keeps no copy of the storage.  What the host sets through its
\* own handle is in the shared storage and leaves the Runtime as it was; a
\* GetStorage{n} executed before any SetStorage{n} of its call finds the value
\* the storage held when the call began (so a line made of that variable
\* alone shows it); and the value of the last SetStorage{n} of a call is what
\* storage.get(n) gives the host after the call.
C37_NoCachedCopy ==
    /\ (op.name = "host_set") =>
          /\ rt = pre.rt
          /\ \E v \in HostWrites :
                /\ storage = storage_set(pre.storage, "g", v)
                /\ storage_get(storage, "g") = Some(v)
    /\ RuntimeCall =>
          \A k \in 1..Len(trace) :
             LET ins == InstrAt(trace[k])
             IN /\ (/\ ins.op = "GetStorage"
                    /\ storage_get(pre.storage, ins.name).some
                    /\ NoSetStorage(ins.name, 1, k - 1)) =>
                       /\ k < Len(trace)
                       /\ (/\ k + 2 = Len(trace)
                           /\ InstrAt(trace[k + 1]) = Concat(1)
                           /\ InstrAt(trace[k + 2]).op = "Line") =>
                              vmres = ResLine(ToStringValue(
                                         storage_get(pre.storage, ins.name).v))
                /\ (/\ ins.op = "SetStorage"
                    /\ NoSetStorage(ins.name, k + 1, Len(trace))) =>
                       storage_get(storage, ins.name) = Some(WrittenValue(trace[k]))

\* The host wrote 9 between two calls and the next line shows it.
C37_Witness ==
    /\ op.name \in {"advance", "select_choice"}
    /\ storage_get(pre.storage, "g") = Some(Num(9))
    /\ \E k \in 1..Len(trace) :
          InstrAt(trace[k]).op = "GetStorage" /\ InstrAt(trace[k]).name = "g"
    /\ vmres = ResLine(ToStringValue(Num(9)))

(***************************************************************************)
(* LiveSpec: a host that plays a constructed Runtime through: advance()     *)
(* while there is more and no choice is pending, select_choice(i) with a   *)
(* presented i while one is, and nothing more after an Err; it keeps       *)
(* calling as long as it has a call to make.                               *)
(***************************************************************************)
Errored == res.kind \in RuntimeErrorKinds

PlayAdvance ==
    /\ phase = "live"
    /\ ~Errored
    /\ has_more(rt)
    /\ ~is_waiting_for_choice(rt)
    /\ \E out \in {advance(chunk, host, overflow_checks, rt, storage)} :
          Apply(out, Call("advance", 0), "live", "live")
    /\ UNCHANGED <<source, host, overflow_checks, chunk>>

PlaySelect ==
    /\ phase = "live"
    /\ ~Errored
    /\ is_waiting_for_choice(rt)
    /\ \E index \in 0..(Len(current_choices(rt)) - 1) :
          \E out \in {select_choice(chunk, host, overflow_checks, rt, storage, index)} :
             Apply(out, Call("select_choice", index), "live", "live")
    /\ UNCHANGED <<source, host, overflow_checks, chunk>>

\* The state Runtime::new leaves.
LiveInit ==
    \E src \in Sources, h \in Hosts, st \in Storages, oc \in BOOLEAN :
       \E made \in {RuntimeNew(src, st, h, oc)} :
          /\ source = src
          /\ host = h
          /\ overflow_checks = oc
          /\ chunk = made.chunk
          /\ rt = made.out.rt
          /\ storage = made.out.storage
          /\ res = made.out.res
          /\ vmres = made.out.vmres
          /\ trace = made.out.trace
          /\ calls = made.out.calls
          /\ op = Call("new", 0)
          /\ pre = [rt |-> RuntimeInit, storage |-> st, res |-> NoCall]
          /\ phase = (IF made.out.res.kind = "Panic" THEN "panicked"
                      ELSE IF made.out.res.kind = "Ok" THEN "live" ELSE "failed")
          /\ last_ok = (IF made.out.vmres.kind \in StepKinds
                        THEN made.out.vmres.kind ELSE "None")
          /\ sel_since = FALSE
          /\ Unused

LiveNext == PlayAdvance \/ PlaySelect

LiveSpec ==
    /\ LiveInit
    /\ [][LiveNext]_vars
    /\ WF_vars(LiveNext)

\* Every Jump and every ChoiceSet target of the chunk leads forward.
NoJumpCycles ==
    \A i \in 0..(Len(chunk.code) - 1) :
       /\ InstrAt(i).op = "Jump" => InstrAt(i).arg > i
       /\ InstrAt(i).op = "ChoiceSet" =>
             \A t \in 1..Len(InstrAt(i).targets) : InstrAt(i).targets[t] > i

\* A call executes no instruction twice, so at most as many as the chunk has.
CallIsBounded ==
    /\ Len(trace) <= Len(chunk.code)
    /\ \A i, j \in 1..Len(trace) : i < j => trace[i] < trace[j]

\* C38: in a chunk without jump cycles every call executes each instruction
\* at most once, and a Runtime played through by its host, as long as no
\* call returns an error, eventually has has_more() == false.
C38_PlayedThroughEnds ==
    /\ [](NoJumpCycles => CallIsBounded)
    /\ ((phase = "live" /\ NoJumpCycles) ~> (~has_more(rt) \/ Errored))

\* The script ended after the host advanced and chose its way through.
C38_Witness ==
    /\ phase = "live"
    /\ NoJumpCycles
    /\ ~has_more(rt)
    /\ sel_since
    /\ op.name = "advance"
    /\ Len(trace) >= 2
    /\ Len(chunk.code) >= 8

=============================================================================
